---------------------------- MODULE Spec2Model ----------------------------
(***************************************************************************)
(* Dynamic-wave conduit flow solver of EPA SWMM 5.1 (src/src/dwflow.c).    *)
(*                                                                         *)
(* The project record sp (SWMM_Project) holds the Link, Conduit and Node   *)
(* arrays and the two global routing options.  Every C function that      *)
(* receives sp is an operator that takes sp and returns the new sp         *)
(* together with its return value and out-parameters.                      *)
(*                                                                         *)
(* Numbers.  A double is a fixed-point integer.  Depths, heads, areas and  *)
(* flows are counted in units of FUDGE/2, so that FUDGE = 2 and the        *)
(* literal 0.001 of the sign-reversal guard is 2000 (FUDGE = 1e-6).        *)
(* Dimensionless quantities (omega, sigma, rho, froude, fasnh, the         *)
(* friction and loss terms dq1 and dq5) are counted in units of 1/One.     *)
(* Velocities are whole ft/sec.  A quotient is rounded toward zero (Div),  *)
(* which keeps every formula odd-symmetric and monotone, as the rounding   *)
(* of a double does.  Link.dqdh is kept as an exact fraction.              *)
(***************************************************************************)
EXTENDS Integers, Sequences, FiniteSets, TLC

VARIABLES sp, last, nSteps

vars == <<sp, last, nSteps>>

-----------------------------------------------------------------------------
(* Program constants *)

\* 1.0 in the fixed-point scale of dimensionless quantities
One == 10

\* FUDGE of consts.h (1e-6 in the units of the spec), in grid units
FUDGE == 2

\* GRAVITY of consts.h (32.2 ft/sec2), rounded
GRAVITY == 32

\* max. allowable velocity (ft/sec)
MAXVELOCITY == 50

\* the literal 0.001 of the flow-direction guard, in grid units
SnapFlow == 2000

-----------------------------------------------------------------------------
(* Arithmetic of macros.h and math.h *)

MIN(a, b) == IF a < b THEN a ELSE b

MAX(a, b) == IF a > b THEN a ELSE b

SGN(x) == IF x < 0 THEN -1 ELSE 1

fabs(x) == IF x < 0 THEN -x ELSE x

\* quotient a/b of two doubles (b > 0), rounded toward zero
Div(a, b) == IF a >= 0 THEN a \div b ELSE -((-a) \div b)

\* integer square root
Isqrt(n) == CHOOSE r \in 0..64 : r * r <= n /\ (r + 1) * (r + 1) > n

\* pow(r, 1.33333) for a hydraulic radius r on the grid: r * cbrt(r), the
\* cube root rounded down
Pow43(r) == r * (CHOOSE c \in 0..8 : c * c * c <= r /\ (c + 1) * (c + 1) * (c + 1) > r)

\* pow(r, 2./3.), rounded down (r >= 0)
Pow23(r) == CHOOSE c \in 0..16 : c * c * c <= r * r /\ (c + 1) * (c + 1) * (c + 1) > r * r

-----------------------------------------------------------------------------
(* Index sets of the project *)

Nodes == 1..3

Links == 1..2

FlowClasses == {"DRY", "UP_DRY", "DN_DRY", "SUBCRITICAL", "SUPCRITICAL",
                "UP_CRITICAL", "DN_CRITICAL"}

-----------------------------------------------------------------------------
(* Cross-section geometry (xsect.c): a rectangular section of width wMax;  *)
(* the top width of a closed section collapses to zero at the crown.       *)

xsect_isOpen(type) == type = "RECT_OPEN"

xsect_getAofY(xsect, y) == xsect.wMax * y

xsect_getWofY(xsect, y) ==
    IF ~xsect_isOpen(xsect.type) /\ y >= xsect.yFull THEN 0 ELSE xsect.wMax

xsect_getRofY(xsect, y) == y

\* top width of flow surface in conduit
getWidth(xsect, y) ==
    LET yy == IF y * 100 > 96 * xsect.yFull /\ ~xsect_isOpen(xsect.type)
              THEN Div(96 * xsect.yFull, 100) ELSE y
    IN  xsect_getWofY(xsect, yy)

\* area of flow cross-section in a conduit
getArea(xsect, y) == xsect_getAofY(xsect, MIN(y, xsect.yFull))

\* hydraulic radius of flow cross-section in a conduit
getHydRad(xsect, y) == xsect_getRofY(xsect, MIN(y, xsect.yFull))

-----------------------------------------------------------------------------
(* Link helpers (link.c, culvert.c, forcmain.c) *)

link_getLength(s, j) == s.Conduit[s.Link[j].subIndex].length

\* normal depth for flow q: zero at zero flow, never above full depth
link_getYnorm(s, j, q) ==
    IF q <= 0 THEN 0
    ELSE MIN(s.Link[j].xsect.yFull, Div(q, s.Conduit[s.Link[j].subIndex].normDiv))

\* critical depth for flow q: zero at zero flow, never above full depth
link_getYcrit(s, j, q) ==
    IF q <= 0 THEN 0
    ELSE MIN(s.Link[j].xsect.yFull, Div(q, s.Conduit[s.Link[j].subIndex].critDiv))

\* Froude number |v| / sqrt(g y), in units of 1/One
link_getFroude(s, j, v, y) ==
    IF y <= FUDGE THEN 0 ELSE Div(One * fabs(v), Isqrt(GRAVITY * y))

\* evaporation and seepage loss rate of the conduit
link_getLossRate(s, j, q, dt) == s.Conduit[s.Link[j].subIndex].lossRate

\* TRUE if a flap gate of the link is closed against flow q
link_setFlapGate(s, j, n1, n2, q) == s.Link[j].hasFlapGate /\ q < 0

link_getFullState(a1, a2, aFull) ==
    IF a1 >= aFull
    THEN (IF a2 >= aFull THEN "ALL_FULL" ELSE "UP_FULL")
    ELSE (IF a2 >= aFull THEN "DN_FULL" ELSE "NOT_FULL")

\* Hazen-Williams / Darcy-Weisbach friction slope of a full force main,
\* in units of 1/One per second
forcemain_getFricSlope(s, j, v, r) == Div(s.Link[j].fmFactor * v, MAX(r, 1))

\* inlet-controlled flow of a culvert: q capped by the inlet capacity at
\* head h1; sets Link.inletControl when the cap applies
culvert_getInflow(s, j, q, h1) ==
    LET n1   == s.Link[j].node1
        y    == MAX(0, h1 - (s.Node[n1].invertElev + s.Link[j].offset1))
        qIn  == s.Link[j].culvertK * y
    IN  IF qIn < q
        THEN [sp |-> [s EXCEPT !.Link[j].inletControl = TRUE], q |-> qIn]
        ELSE [sp |-> s, q |-> q]

-----------------------------------------------------------------------------
(* getFlowClass: flow class of a conduit from the depths at each end.      *)
(* yC0 and yN0 are the values the out-parameters hold on entry.            *)

\* EndOffset that takes the conduit's offset at an outfall as it is
EndOffset_raw(s, n, offset) == offset

\* conduit invert offset at node n, based on the outfall's depth at an outfall
EndOffset(s, n, offset) ==
    IF s.Node[n].type = "OUTFALL"
    THEN MAX(0, offset - s.Node[n].newDepth)
    ELSE offset

\* WetEndsClass that asks for no conduit offset at the critical end
WetEndsClass_noOffset(q, z1, z2, y1, y2, ycMin) ==
    IF q < 0
    THEN (IF y1 < ycMin THEN "UP_CRITICAL" ELSE "SUBCRITICAL")
    ELSE (IF y2 < ycMin THEN "DN_CRITICAL" ELSE "SUBCRITICAL")

\* WetEndsClass that tests the downstream offset for reverse flow too
WetEndsClass_sameOffset(q, z1, z2, y1, y2, ycMin) ==
    IF q < 0
    THEN (IF z2 > 0 /\ y1 < ycMin THEN "UP_CRITICAL" ELSE "SUBCRITICAL")
    ELSE (IF z2 > 0 /\ y2 < ycMin THEN "DN_CRITICAL" ELSE "SUBCRITICAL")

\* class when both ends of conduit are wet
WetEndsClass(q, z1, z2, y1, y2, ycMin) ==
    IF q < 0
    THEN \* upstream end at critical depth if flow depth is below conduit's
         \* critical depth and an upstream conduit offset exists
         (IF z1 > 0 /\ y1 < ycMin THEN "UP_CRITICAL" ELSE "SUBCRITICAL")
    ELSE \* case of normal direction flow
         (IF z2 > 0 /\ y2 < ycMin THEN "DN_CRITICAL" ELSE "SUBCRITICAL")

\* the class and the out-parameters of getFlowClass
FlowClassification(s, j, q, h1, h2, y1, y2, yC0, yN0) ==
    LET n1 == s.Link[j].node1
        n2 == s.Link[j].node2
        z1 == EndOffset(s, n1, s.Link[j].offset1)
        z2 == EndOffset(s, n2, s.Link[j].offset2)
        yN == link_getYnorm(s, j, fabs(q))
        yC == link_getYcrit(s, j, fabs(q))
        ycMin == MIN(yN, yC)
        ycMax == MAX(yN, yC)
        \* result with class c and fraction f; set: yN and yC were computed
        res(c, f, set) ==
            [flowClass |-> c, fasnh |-> f,
             yC |-> IF set THEN yC ELSE yC0,
             yN |-> IF set THEN yN ELSE yN0]
    IN  IF y1 > FUDGE /\ y2 > FUDGE
        THEN res(WetEndsClass(q, z1, z2, y1, y2, ycMin),
                 IF q >= 0 /\ z2 > 0 /\ y2 >= ycMin /\ y2 < ycMax
                 THEN (IF ycMax - ycMin < FUDGE THEN 0
                       ELSE Div((ycMax - y2) * One, ycMax - ycMin))
                 ELSE One,
                 IF q < 0 THEN z1 > 0 ELSE z2 > 0)
        ELSE IF y1 <= FUDGE /\ y2 <= FUDGE
        THEN \* no flow at either end of conduit
             res("DRY", One, FALSE)
        ELSE IF y2 > FUDGE
        THEN \* downstream end of pipe is wet, upstream dry
             IF h2 < s.Node[n1].invertElev + s.Link[j].offset1
             THEN res("UP_DRY", One, FALSE)
             ELSE IF z1 > 0 THEN res("UP_CRITICAL", One, TRUE)
             ELSE res("SUBCRITICAL", One, FALSE)
        ELSE \* upstream end of pipe is wet, downstream dry
             IF h1 < s.Node[n2].invertElev + s.Link[j].offset2
             THEN res("DN_DRY", One, FALSE)
             ELSE IF z2 > 0 THEN res("DN_CRITICAL", One, TRUE)
             ELSE res("SUBCRITICAL", One, FALSE)

\* getFlowClass that keeps its result in the link record
getFlowClass_storesClass(s, j, q, h1, h2, y1, y2, yC0, yN0) ==
    LET c == FlowClassification(s, j, q, h1, h2, y1, y2, yC0, yN0)
    IN  [sp |-> [s EXCEPT !.Link[j].flowClass = c.flowClass],
         flowClass |-> c.flowClass, yC |-> c.yC, yN |-> c.yN,
         fasnh |-> c.fasnh]

\* the call: the project it leaves, the returned class, the out-parameters
getFlowClass(s, j, q, h1, h2, y1, y2, yC0, yN0) ==
    LET c == FlowClassification(s, j, q, h1, h2, y1, y2, yC0, yN0)
    IN  [sp |-> s, flowClass |-> c.flowClass, yC |-> c.yC, yN |-> c.yN,
         fasnh |-> c.fasnh]

-----------------------------------------------------------------------------
(* findSurfArea: assigns surface area of conduit to its up and downstream  *)
(* nodes; returns the updated h1, h2, y1, y2.                              *)

\* CriticalEndDepth without the floor at FUDGE
CriticalEndDepth_noFloor(criticalDepth, normalDepth) ==
    IF normalDepth < criticalDepth THEN normalDepth ELSE criticalDepth

\* depth of a critical end: the smaller of critical and normal depth,
\* not below FUDGE
CriticalEndDepth(criticalDepth, normalDepth) ==
    MAX(IF normalDepth < criticalDepth THEN normalDepth ELSE criticalDepth,
        FUDGE)

\* the rest of findSurfArea once the classifier has returned fc: stores the
\* class, then adds conduit's surface area to its end nodes depending on
\* flow class
SurfAreaForClass(s, j, length, h1, h2, y1, y2, fc) ==
    LET n1 == s.Link[j].node1
        n2 == s.Link[j].node2
        xsect == s.Link[j].xsect
        class == fc.flowClass
        flowDepth1 ==
            CASE class = "UP_CRITICAL" -> CriticalEndDepth(fc.yC, fc.yN)
              [] class = "UP_DRY" -> FUDGE
              [] OTHER -> y1
        flowDepth2 ==
            CASE class = "DN_CRITICAL" -> CriticalEndDepth(fc.yC, fc.yN)
              [] class = "DN_DRY" -> FUDGE
              [] OTHER -> y2
        flowDepthMid == MAX(Div(flowDepth1 + flowDepth2, 2), FUDGE)
        width1 == getWidth(xsect, flowDepth1)
        width2 == getWidth(xsect, flowDepth2)
        widthMid == getWidth(xsect, flowDepthMid)
        surfArea1 ==
            CASE class = "SUBCRITICAL" -> Div((width1 + widthMid) * length, 4)
              [] class = "UP_CRITICAL" -> 0
              [] class = "DN_CRITICAL" -> Div((width1 + widthMid) * length, 2)
              [] class = "UP_DRY" ->
                    IF s.Link[j].offset1 <= 0
                    THEN Div((width1 + widthMid) * length, 4) ELSE 0
              [] class = "DN_DRY" -> Div((widthMid + width1) * length, 4)
              [] class = "DRY" -> Div(FUDGE * length, 2)
              [] OTHER -> 0
        surfArea2 ==
            CASE class = "SUBCRITICAL" ->
                    Div((widthMid + width2) * length * fc.fasnh, 4 * One)
              [] class = "UP_CRITICAL" -> Div((widthMid + width2) * length, 2)
              [] class = "DN_CRITICAL" -> 0
              [] class = "UP_DRY" -> Div((widthMid + width2) * length, 4)
              [] class = "DN_DRY" ->
                    IF s.Link[j].offset2 <= 0
                    THEN Div((width2 + widthMid) * length, 4) ELSE 0
              [] class = "DRY" -> Div(FUDGE * length, 2)
              [] OTHER -> 0
    IN  [sp |-> [fc.sp EXCEPT !.Link[j].flowClass = class,
                              !.Link[j].surfArea1 = surfArea1,
                              !.Link[j].surfArea2 = surfArea2],
         h1 |-> IF class = "UP_CRITICAL"
                THEN s.Node[n1].invertElev + s.Link[j].offset1 + flowDepth1
                ELSE h1,
         h2 |-> IF class = "DN_CRITICAL"
                THEN s.Node[n2].invertElev + s.Link[j].offset2 + flowDepth2
                ELSE h2,
         y1 |-> flowDepth1, y2 |-> flowDepth2,
         classCalls |-> <<fc>>]

\* finds conduit's flow classification (normalDepth and criticalDepth start
\* at the mean of the two depths), then distributes the surface area
findSurfArea(s, j, q, length, h1, h2, y1, y2) ==
    SurfAreaForClass(s, j, length, h1, h2, y1, y2,
                     getFlowClass(s, j, q, h1, h2, y1, y2,
                                  Div(y1 + y2, 2), Div(y1 + y2, 2)))

-----------------------------------------------------------------------------
\* findLocalLosses: local losses term of momentum equation (units of 1/One)
findLocalLosses(s, j, a1, a2, aMid, q0) ==
    LET q == fabs(q0)
    IN  (IF a1 > FUDGE THEN Div(s.Link[j].cLossInlet * q, a1) ELSE 0)
      + (IF a2 > FUDGE THEN Div(s.Link[j].cLossOutlet * q, a2) ELSE 0)
      + (IF aMid > FUDGE THEN Div(s.Link[j].cLossAvg * q, aMid) ELSE 0)

-----------------------------------------------------------------------------
(* checkNormalFlow: checks if flow in link should be replaced by normal    *)
(* flow; returns the modified flow and the project with Link.normalFlow.   *)

\* checkNormalFlow that treats a conduit at an outfall like any other
checkNormalFlow_noOutfall(s, j, q, y1, y2, a1, r1) ==
    LET k  == s.Link[j].subIndex
        check1 == (s.NormalFlowLtd = "SLOPE" \/ s.NormalFlowLtd = "BOTH")
                  /\ y1 < y2
        check2 == ~check1
                  /\ (s.NormalFlowLtd = "FROUDE" \/ s.NormalFlowLtd = "BOTH")
                  /\ y1 > FUDGE /\ y2 > FUDGE
                  /\ link_getFroude(s, j, Div(q, a1), y1) >= One
        qNorm == s.Conduit[k].beta * a1 * Pow23(r1)
    IN  IF (check1 \/ check2) /\ qNorm < q
        THEN [sp |-> [s EXCEPT !.Link[j].normalFlow = TRUE], q |-> qNorm]
        ELSE [sp |-> s, q |-> q]

checkNormalFlow(s, j, q, y1, y2, a1, r1) ==
    LET k  == s.Link[j].subIndex
        n1 == s.Link[j].node1
        n2 == s.Link[j].node2
        hasOutfall == s.Node[n1].type = "OUTFALL" \/ s.Node[n2].type = "OUTFALL"
        \* water surface slope < conduit slope
        check1 == (s.NormalFlowLtd = "SLOPE" \/ s.NormalFlowLtd = "BOTH"
                     \/ hasOutfall) /\ y1 < y2
        \* Fr >= 1.0 at upstream end of conduit
        check2 == ~check1
                  /\ (s.NormalFlowLtd = "FROUDE" \/ s.NormalFlowLtd = "BOTH")
                  /\ ~hasOutfall
                  /\ y1 > FUDGE /\ y2 > FUDGE
                  /\ link_getFroude(s, j, Div(q, a1), y1) >= One
        qNorm == s.Conduit[k].beta * a1 * Pow23(r1)
    IN  IF (check1 \/ check2) /\ qNorm < q
        THEN [sp |-> [s EXCEPT !.Link[j].normalFlow = TRUE], q |-> qNorm]
        ELSE [sp |-> s, q |-> q]

-----------------------------------------------------------------------------
(* Steps of dwflow_findConduitFlow *)

\* heads and unadjusted flow depths at the two ends of conduit j
EndDepths(s, j) ==
    LET n1 == s.Link[j].node1
        n2 == s.Link[j].node2
        yFull == s.Link[j].xsect.yFull
        z1 == s.Node[n1].invertElev + s.Link[j].offset1
        z2 == s.Node[n2].invertElev + s.Link[j].offset2
        h1 == MAX(s.Node[n1].newDepth + s.Node[n1].invertElev, z1)
        h2 == MAX(s.Node[n2].newDepth + s.Node[n2].invertElev, z2)
    IN  [h1 |-> h1, h2 |-> h2,
         y1 |-> MIN(MAX(h1 - z1, FUDGE), yFull),
         y2 |-> MIN(MAX(h2 - z2, FUDGE), yFull)]

\* inertial damping factor (sigma) from the Froude number
FroudeSigma(froude) ==
    IF 2 * froude <= One THEN One
    ELSE IF froude >= One THEN 0
    ELSE 2 * (One - froude)

\* RelaxFlow without the guard on a change of flow direction
RelaxFlow_noSnap(steps, omega, qLast, q) ==
    IF steps > 0 THEN Div((One - omega) * qLast + omega * q, One) ELSE q

\* under-relaxation weighting between new & old flows; no change in flow
\* direction without first being zero
RelaxFlow(steps, omega, qLast, q) ==
    IF steps > 0
    THEN LET qr == Div((One - omega) * qLast + omega * q, One)
         IN  IF qr * qLast < 0 THEN SnapFlow * SGN(qr) ELSE qr
    ELSE q

\* UserFlowLimit that compares the signed flow with the limit
UserFlowLimit_signed(qLimit, q) ==
    IF qLimit > 0 /\ q > qLimit THEN SGN(q) * qLimit ELSE q

\* user-supplied flow limit
UserFlowLimit(qLimit, q) ==
    IF qLimit > 0 /\ fabs(q) > qLimit THEN SGN(q) * qLimit ELSE q

\* reverse flow with closed flap gate
FlapGateFlow(s, j, q) ==
    IF link_setFlapGate(s, j, s.Link[j].node1, s.Link[j].node2, q) THEN 0 ELSE q

\* DryNodeFlow that chokes the flow out of a dry upstream node only
DryNodeFlow_upstreamOnly(s, j, q) ==
    IF q > FUDGE /\ s.Node[s.Link[j].node1].newDepth <= FUDGE THEN FUDGE ELSE q

\* do not allow flow out of a dry node
DryNodeFlow(s, j, q) ==
    LET qa == IF q > FUDGE /\ s.Node[s.Link[j].node1].newDepth <= FUDGE
              THEN FUDGE ELSE q
    IN  IF qa < -FUDGE /\ s.Node[s.Link[j].node2].newDepth <= FUDGE
        THEN -FUDGE ELSE qa

\* IsEarlyOut that ignores the control setting
IsEarlyOut_ignoresSetting(s, j, isClosed, aMid) ==
    \/ s.Link[j].flowClass = "DRY"
    \/ s.Link[j].flowClass = "UP_DRY"
    \/ s.Link[j].flowClass = "DN_DRY"
    \/ aMid <= FUDGE

\* the conduit is dry or closed: new flow is set to zero
IsEarlyOut(s, j, isClosed, aMid) ==
    \/ s.Link[j].flowClass = "DRY"
    \/ s.Link[j].flowClass = "UP_DRY"
    \/ s.Link[j].flowClass = "DN_DRY"
    \/ isClosed
    \/ aMid <= FUDGE

\* WeightedArea without the upstream area it starts from
WeightedArea_noBase(a1, aMid, rho) == Div((aMid - a1) * rho, One)

\* upstream-weighted area
WeightedArea(a1, aMid, rho) == a1 + Div((aMid - a1) * rho, One)

\* upstream-weighted hyd. radius
WeightedHydRad(r1, rMid, rho) == r1 + Div((rMid - r1) * rho, One)

\* ConduitIndex that takes the link index for the conduit index
ConduitIndex_linkIndex(s, j) == j

\* index of the conduit of link j
ConduitIndex(s, j) == s.Link[j].subIndex

\* PerBarrelFlow that forgets the barrels
PerBarrelFlow_total(flow, barrels) == flow

\* flow from last time step in one barrel
PerBarrelFlow(flow, barrels) == Div(flow, barrels)

\* FrictionTerm that divides by the roughness factor
FrictionTerm_inverse(dt, roughFactor, v, rWtd) ==
    Div(dt * fabs(v), roughFactor * Pow43(rWtd))

\* friction slope term of a conduit that is not a full force main
FrictionTerm(dt, roughFactor, v, rWtd) ==
    Div(dt * roughFactor * fabs(v), Pow43(rWtd))

-----------------------------------------------------------------------------
(* dwflow_findConduitFlow: updates flow in conduit link j by solving the   *)
(* finite difference form of the continuity and momentum equations.        *)
(* Returns the new project and the values of the locals at exit.           *)

\* the arguments and the locals read from the project before findSurfArea
FlowInputs(s0, j, steps, omega, dt) ==
    LET k == ConduitIndex(s0, j)
    IN  [j |-> j, steps |-> steps, omega |-> omega, dt |-> dt, k |-> k,
         xsect |-> s0.Link[j].xsect,
         \* isClosed status by any control action
         isClosed |-> s0.Link[j].setting = 0,
         \* flow from last time step & previous iteration
         barrels |-> s0.Conduit[k].barrels,
         qOld |-> PerBarrelFlow(s0.Link[j].oldFlow, s0.Conduit[k].barrels),
         qLast |-> s0.Conduit[k].q1,
         \* most current heads and depths at the ends of conduit
         entry |-> EndDepths(s0, j),
         \* area from solution at previous time step
         aOld |-> MAX(s0.Conduit[k].a2, FUDGE),
         \* Courant-modified length
         length |-> s0.Conduit[k].modLength]

\* areas and hyd. radii at the ends and at the midpoint, from the heads and
\* depths sa that findSurfArea returned
EndGeometry(xsect, sa) ==
    LET yMid == Div(sa.y1 + sa.y2, 2)
    IN  [s1 |-> sa.sp, classCalls |-> sa.classCalls,
         h1 |-> sa.h1, h2 |-> sa.h2, y1 |-> sa.y1, y2 |-> sa.y2,
         a1 |-> getArea(xsect, sa.y1),
         a2 |-> getArea(xsect, sa.y2),
         r1 |-> getHydRad(xsect, sa.y1),
         yMid |-> yMid,
         aMid |-> getArea(xsect, yMid),
         rMid |-> getHydRad(xsect, yMid),
         \* conduit is flowing full
         isFull |-> sa.y1 >= xsect.yFull /\ sa.y2 >= xsect.yFull]

\* the values at exit that do not depend on the path taken
ExitLocals(in, g) ==
    [isClosed |-> in.isClosed, isFull |-> g.isFull, qLast |-> in.qLast,
     qOld |-> in.qOld, distClass |-> g.s1.Link[in.j].flowClass,
     classCalls |-> g.classCalls, entry |-> in.entry,
     h1 |-> g.h1, h2 |-> g.h2, y1 |-> g.y1, y2 |-> g.y2,
     aMid |-> g.aMid, length |-> in.length]

\* new flow set to zero: conduit is dry or closed
EarlyOutFlow(in, g) ==
    [sp |-> [g.s1 EXCEPT
               !.Conduit[in.k].a1 = Div(g.a1 + g.a2, 2),
               !.Conduit[in.k].q1 = 0,
               !.Conduit[in.k].q2 = 0,
               !.Link[in.j].dqdh =
                   [num |-> GRAVITY * in.dt * g.aMid * in.barrels,
                    den |-> in.length],
               !.Link[in.j].froude = 0,
               !.Link[in.j].newDepth =
                   MIN(g.yMid, g.s1.Link[in.j].xsect.yFull),
               !.Link[in.j].newVolume =
                   Div(g.a1 + g.a2, 2) * link_getLength(g.s1, in.j)
                     * in.barrels,
               !.Link[in.j].newFlow = 0],
     early |-> TRUE, rho |-> One, sigma |-> 0, froude |-> 0, qCand |-> 0,
     qLim |-> 0, qRelax |-> 0, qUser |-> 0, flapClosed |-> FALSE]
    @@ ExitLocals(in, g)

\* velocity from last flow estimate
LastVelocity(qLast, aMid) ==
    IF fabs(Div(qLast, aMid)) > MAXVELOCITY
    THEN MAXVELOCITY * SGN(qLast)
    ELSE Div(qLast, aMid)

\* DampingFactors without the rule for a surcharged closed conduit
DampingFactors_noSurcharge(s, in, g, froude) ==
    [rho |-> IF ~g.isFull /\ in.qLast > 0 /\ g.h1 >= g.h2
             THEN FroudeSigma(froude) ELSE One,
     sigma |-> IF s.InertDamping = "NO_DAMPING" THEN One
               ELSE IF s.InertDamping = "FULL_DAMPING" THEN 0
               ELSE FroudeSigma(froude)]

\* upstream weight (rho) and inertial damping factor (sigma)
DampingFactors(s, in, g, froude) ==
    [rho |-> IF ~g.isFull /\ in.qLast > 0 /\ g.h1 >= g.h2
             THEN FroudeSigma(froude) ELSE One,
     sigma |-> \* full inertial damping if closed conduit is surcharged
               IF g.isFull /\ ~xsect_isOpen(in.xsect.type) THEN 0
               ELSE IF s.InertDamping = "NO_DAMPING" THEN One
               ELSE IF s.InertDamping = "FULL_DAMPING" THEN 0
               ELSE FroudeSigma(froude)]

\* terms of momentum eqn. for velocity v, weighted area aWtd and hyd.
\* radius rWtd, and the new conduit flow they combine to
MomentumTerms(s, in, g, v, sigma, aWtd, rWtd) ==
    LET \* 1. friction slope term
        dq1 == IF in.xsect.type = "FORCE_MAIN" /\ g.isFull
               THEN in.dt * forcemain_getFricSlope(s, in.j, fabs(v), g.rMid)
               ELSE FrictionTerm(in.dt, s.Conduit[in.k].roughFactor, v, rWtd)
        \* 2. energy slope term
        dq2 == Div(in.dt * GRAVITY * aWtd * (g.h2 - g.h1), in.length)
        \* 3 & 4. inertial terms
        dq3 == IF sigma > 0
               THEN Div(2 * v * (g.aMid - in.aOld) * sigma, One) ELSE 0
        dq4 == IF sigma > 0
               THEN Div(in.dt * v * v * (g.a2 - g.a1) * sigma,
                        in.length * One)
               ELSE 0
        \* 5. local losses term
        dq5 == IF s.Conduit[in.k].hasLosses
               THEN Div(findLocalLosses(s, in.j, g.a1, g.a2, g.aMid,
                                        in.qLast) * in.dt,
                        2 * in.length)
               ELSE 0
        \* 6. term for evap and seepage losses per unit length
        dq6 == Div(link_getLossRate(s, in.j, in.qOld, in.dt) * 5 * in.dt * v,
                   2 * link_getLength(s, in.j))
    IN  [denom |-> One + dq1 + dq5,
         q |-> Div((in.qOld - dq2 + dq3 + dq4 - dq6) * One, One + dq1 + dq5),
         aWtd |-> aWtd]

\* flow limitation by culvert inlet control or by normal flow
LimitFlow(s, in, g, q) ==
    IF q > 0
    THEN IF in.xsect.culvertCode > 0 /\ ~g.isFull
         THEN culvert_getInflow(s, in.j, q, g.h1)
         ELSE IF g.y1 < s.Link[in.j].xsect.yFull
                 /\ (s.Link[in.j].flowClass = "SUBCRITICAL"
                     \/ s.Link[in.j].flowClass = "SUPCRITICAL")
         THEN checkNormalFlow(s, in.j, q, g.y1, g.y2, g.a1, g.r1)
         ELSE [sp |-> s, q |-> q]
    ELSE [sp |-> s, q |-> q]

\* saves new values of area, flow, depth, & volume for the final flow q
SaveFlow(s, in, g, q) ==
    [s EXCEPT
       !.Conduit[in.k].a1 = g.aMid,
       !.Conduit[in.k].q1 = q,
       !.Conduit[in.k].q2 = q,
       !.Link[in.j].newDepth = MIN(g.yMid, in.xsect.yFull),
       !.Conduit[in.k].fullState =
           link_getFullState(g.a1, g.a2, in.xsect.aFull),
       !.Link[in.j].newVolume =
           MIN(Div(g.a1 + g.a2, 2), in.xsect.aFull)
             * link_getLength(s, in.j) * in.barrels,
       !.Link[in.j].newFlow = q * in.barrels]

\* under-relaxation, user limit, flap gate and dry nodes applied to the
\* limited flow lim.q on project lim.sp
FinishFlow(in, g, f, qCand, lim, qRelax, qUser) ==
    [sp |-> SaveFlow(lim.sp, in, g,
                     DryNodeFlow(lim.sp, in.j,
                                 FlapGateFlow(lim.sp, in.j, qUser))),
     early |-> FALSE, rho |-> f.rho, sigma |-> f.sigma,
     froude |-> lim.sp.Link[in.j].froude, qCand |-> qCand,
     qLim |-> lim.q, qRelax |-> qRelax, qUser |-> qUser,
     flapClosed |-> link_setFlapGate(lim.sp, in.j, lim.sp.Link[in.j].node1,
                                     lim.sp.Link[in.j].node2, qUser)]
    @@ ExitLocals(in, g)

\* the flow limits, from the combined momentum terms m on project s
ApplyLimits(s, in, g, f, m, lim) ==
    FinishFlow(in, g, f, m.q, lim,
               RelaxFlow(in.steps, in.omega, in.qLast, lim.q),
               UserFlowLimit(lim.sp.Link[in.j].qLimit,
                             RelaxFlow(in.steps, in.omega, in.qLast, lim.q)))

\* derivative of flow w.r.t. head; no flow limitation found yet
StoreDqdh(s, in, m) ==
    [s EXCEPT !.Link[in.j].dqdh =
                  [num |-> One * GRAVITY * in.dt * m.aWtd * in.barrels,
                   den |-> m.denom * in.length],
              !.Link[in.j].inletControl = FALSE,
              !.Link[in.j].normalFlow = FALSE]

\* the momentum equation solved on project s (Froude No. and class stored)
\* with damping factors f
SolveMomentum(s, in, g, v, f, m) ==
    ApplyLimits(s, in, g, f, m, LimitFlow(StoreDqdh(s, in, m), in, g, m.q))

\* StoreFroude that raises the class at Froude 1 already
StoreFroude_atOne(s, j, froude) ==
    [s EXCEPT !.Link[j].froude = froude,
              !.Link[j].flowClass =
                  IF @ = "SUBCRITICAL" /\ froude >= One
                  THEN "SUPCRITICAL" ELSE @]

\* Froude No. stored; SUBCRITICAL raised to SUPCRITICAL above Froude 1
StoreFroude(s, j, froude) ==
    [s EXCEPT !.Link[j].froude = froude,
              !.Link[j].flowClass =
                  IF @ = "SUBCRITICAL" /\ froude > One
                  THEN "SUPCRITICAL" ELSE @]

\* the full momentum path for velocity v, Froude No. froude and factors f
MomentumPath(s, in, g, v, f) ==
    SolveMomentum(s, in, g, v, f,
                  MomentumTerms(s, in, g, v, f.sigma,
                                WeightedArea(g.a1, g.aMid, f.rho),
                                WeightedHydRad(g.r1, g.rMid, f.rho)))

\* the full momentum path: Froude No. stored, damping factors found
FullFlow(in, g, v, froude) ==
    MomentumPath(StoreFroude(g.s1, in.j, froude), in, g, v,
                 DampingFactors(g.s1, in, g, froude))

\* the conduit update from the geometry g
FlowFromGeometry(in, g) ==
    IF IsEarlyOut(g.s1, in.j, in.isClosed, g.aMid)
    THEN EarlyOutFlow(in, g)
    ELSE FullFlow(in, g, LastVelocity(in.qLast, g.aMid),
                  link_getFroude(g.s1, in.j, LastVelocity(in.qLast, g.aMid),
                                 g.yMid))

\* the conduit update from the locals read on entry
FlowFromInputs(s0, in) ==
    FlowFromGeometry(in,
        EndGeometry(in.xsect,
            \* surface area contributions to upstream and downstream nodes
            \* based on previous iteration's flow estimate
            findSurfArea(s0, in.j, in.qLast, in.length, in.entry.h1,
                         in.entry.h2, in.entry.y1, in.entry.y2)))

dwflow_findConduitFlow(s0, j, steps, omega, dt) ==
    FlowFromInputs(s0, FlowInputs(s0, j, steps, omega, dt))

-----------------------------------------------------------------------------
(* The project: three nodes and two conduits that both end at node 2.      *)
(* Link 1 runs from node 1 to node 2 and is set up by a scenario; link 2   *)
(* runs from node 3 to node 2 and is a plain open channel.  Link 1 owns    *)
(* conduit 2 and link 2 owns conduit 1.                                    *)

\* bound on the number of steps (conduit updates and outer-loop actions);
\* the outer loop acts only while a conduit update can still follow
MaxSteps == 2

Scenarios == {"open", "drop", "outfall", "gated", "culvert", "forcemain",
              "shut"}

\* node depths the outer iteration can set
Depths == {0, 6, 9, 12}

\* per-barrel flows <<q1, qOld>> of the previous iteration and of the
\* previous time step
PriorFlows == {<<0, 0>>, <<60, 0>>, <<3000, 2500>>, <<3000, -2500>>,
               <<-3000, 2500>>, <<-3000, -2500>>}

\* values of steps, omega and dt a caller passes
StepsSet == {0, 1}

OmegaSet == {One \div 2, One}

DtSet == {2}

BaseXsect == [type |-> "RECT_OPEN", yFull |-> 6, aFull |-> 12, wMax |-> 2,
              culvertCode |-> 0]

BaseLink ==
    [node1 |-> 1, node2 |-> 2, subIndex |-> 2, offset1 |-> 0, offset2 |-> 0,
     setting |-> One, oldFlow |-> 0, qLimit |-> 0, hasFlapGate |-> FALSE,
     xsect |-> BaseXsect, culvertK |-> 100, fmFactor |-> 4,
     cLossInlet |-> 0, cLossOutlet |-> 0, cLossAvg |-> 0,
     flowClass |-> "SUBCRITICAL", froude |-> 0, newDepth |-> FUDGE,
     newVolume |-> 0, newFlow |-> 0, dqdh |-> [num |-> 0, den |-> 1],
     surfArea1 |-> 0, surfArea2 |-> 0,
     inletControl |-> FALSE, normalFlow |-> FALSE]

BaseConduit ==
    [barrels |-> 1, q1 |-> 0, q2 |-> 0, a1 |-> 4, a2 |-> 4,
     modLength |-> 4, length |-> 3, roughFactor |-> 2, beta |-> 40,
     hasLosses |-> FALSE, fullState |-> "NOT_FULL",
     normDiv |-> 400, critDiv |-> 700, lossRate |-> 0]

ScenarioLink(sc) ==
    CASE sc = "open" -> BaseLink
      [] sc = "drop" ->
            [BaseLink EXCEPT !.offset1 = 2, !.offset2 = 3,
                             !.xsect.type = "RECT_CLOSED",
                             !.xsect.wMax = 1, !.xsect.aFull = 6,
                             !.cLossInlet = 1, !.cLossOutlet = 2,
                             !.cLossAvg = 1]
      [] sc = "outfall" ->
            [BaseLink EXCEPT !.offset2 = 9]
      [] sc = "gated" ->
            [BaseLink EXCEPT !.qLimit = 300, !.hasFlapGate = TRUE,
                             !.offset2 = 1,
                             !.xsect.type = "RECT_CLOSED"]
      [] sc = "culvert" ->
            [BaseLink EXCEPT !.xsect.type = "RECT_CLOSED",
                             !.xsect.culvertCode = 1]
      [] sc = "forcemain" ->
            [BaseLink EXCEPT !.xsect.type = "FORCE_MAIN", !.offset1 = 5,
                             !.qLimit = 800]
      [] sc = "shut" ->
            [BaseLink EXCEPT !.setting = 0, !.xsect.type = "RECT_CLOSED"]

ScenarioConduit(sc) ==
    CASE sc = "drop" ->
            [BaseConduit EXCEPT !.barrels = 2, !.hasLosses = TRUE, !.beta = 3,
                                !.critDiv = 300, !.lossRate = 1]
      [] sc = "outfall" -> [BaseConduit EXCEPT !.roughFactor = 6]
      [] sc = "gated" -> [BaseConduit EXCEPT !.barrels = 3]
      [] OTHER -> BaseConduit

ScenarioDamping(sc) ==
    CASE sc = "drop" -> "NO_DAMPING"
      [] sc = "outfall" -> "FULL_DAMPING"
      [] OTHER -> "PARTIAL"

ScenarioNormalFlowLtd(sc) ==
    CASE sc = "open" -> "BOTH"
      [] sc = "drop" -> "FROUDE"
      [] sc = "culvert" -> "FROUDE"
      [] sc = "outfall" -> "FROUDE"
      [] OTHER -> "SLOPE"

\* the project at the start of a sub-iteration
Project(sc, d1, d2, qPrior, qOld) ==
    LET c1 == ScenarioConduit(sc)
    IN  [Node |->
           [n \in Nodes |->
              CASE n = 1 -> [invertElev |-> 3, newDepth |-> d1,
                             type |-> "JUNCTION"]
                [] n = 2 -> [invertElev |-> 1, newDepth |-> d2,
                             type |-> IF sc = "outfall" THEN "OUTFALL"
                                      ELSE "JUNCTION"]
                [] OTHER -> [invertElev |-> 2, newDepth |-> 5,
                             type |-> "JUNCTION"]],
         Link |->
           [j \in Links |->
              IF j = 1
              THEN [ScenarioLink(sc) EXCEPT
                      !.oldFlow = qOld * c1.barrels,
                      !.newFlow = qPrior * c1.barrels]
              ELSE [BaseLink EXCEPT !.node1 = 3, !.subIndex = 1,
                                    !.offset1 = 1]],
         Conduit |->
           [k \in Links |->
              IF k = ScenarioLink(sc).subIndex
              THEN [c1 EXCEPT !.q1 = qPrior, !.q2 = qPrior]
              ELSE BaseConduit],
         InertDamping |-> ScenarioDamping(sc),
         NormalFlowLtd |-> ScenarioNormalFlowLtd(sc)]

-----------------------------------------------------------------------------
(* State machine *)

Init ==
    /\ \E sc \in Scenarios, d1 \in Depths, d2 \in Depths, qs \in PriorFlows :
          sp = Project(sc, d1, d2, qs[1], qs[2])
    /\ last = [op |-> "init"]
    /\ nSteps = 0

\* the outer iteration calls dwflow_findConduitFlow for conduit link j
FindConduitFlow(j, steps, omega, dt) ==
    /\ nSteps < MaxSteps
    /\ steps = 0 => omega = One
    /\ LET r == dwflow_findConduitFlow(sp, j, steps, omega, dt)
       IN  /\ sp' = r.sp
           /\ last' = [op |-> "call", j |-> j, steps |-> steps,
                       omega |-> omega, dt |-> dt, pre |-> sp, loc |-> r]
    /\ nSteps' = nSteps + 1

\* the outer iteration updates the depth of a node between sub-iterations
SetNodeDepth(n, d) ==
    /\ nSteps + 1 < MaxSteps
    /\ sp.Node[n].newDepth # d
    /\ sp' = [sp EXCEPT !.Node[n].newDepth = d]
    /\ last' = [op |-> "node"]
    /\ nSteps' = nSteps + 1

\* a new time step begins: the new flows and areas become the old ones
NewTimeStep ==
    /\ nSteps + 1 < MaxSteps
    /\ sp' = [sp EXCEPT
                !.Link = [j \in Links |->
                            [sp.Link[j] EXCEPT !.oldFlow = sp.Link[j].newFlow]],
                !.Conduit = [k \in Links |->
                            [sp.Conduit[k] EXCEPT !.a2 = sp.Conduit[k].a1]]]
    /\ last' = [op |-> "step"]
    /\ nSteps' = nSteps + 1

Next ==
    \/ \E j \in Links, steps \in StepsSet, omega \in OmegaSet, dt \in DtSet :
          FindConduitFlow(j, steps, omega, dt)
    \/ \E n \in {1, 2}, d \in Depths : SetNodeDepth(n, d)
    \/ NewTimeStep

Spec == Init /\ [][Next]_vars

-----------------------------------------------------------------------------
(* The classifier on its own: getFlowClass applied to flows, heads and     *)
(* depths drawn from small sets, on link j of a project.                   *)

ClassFlows == {-3000, -1200, -60, 0, 60, 1200, 3000}

ClassHeads == {2, 5, 9, 12}

ClassDepths == {0, 2, 3, 5}

InitClass ==
    /\ \E sc \in Scenarios, d2 \in Depths : sp = Project(sc, 0, d2, 0, 0)
    /\ \E j \in Links, q \in ClassFlows, h1 \in ClassHeads, h2 \in ClassHeads,
          y1 \in ClassDepths, y2 \in ClassDepths :
             last = [op |-> "input", j |-> j, q |-> q, h1 |-> h1, h2 |-> h2,
                     y1 |-> y1, y2 |-> y2]
    /\ nSteps = 0

\* the caller asks for the flow class of link j at the drawn inputs
ClassifyEnds ==
    /\ last.op = "input"
    /\ LET r == getFlowClass(sp, last.j, last.q, last.h1, last.h2,
                             last.y1, last.y2,
                             Div(last.y1 + last.y2, 2),
                             Div(last.y1 + last.y2, 2))
       IN  /\ sp' = r.sp
           /\ last' = [last EXCEPT !.op = "class"] @@ [pre |-> sp, res |-> r]
    /\ nSteps' = nSteps + 1

NextClass == ClassifyEnds

SpecClass == InitClass /\ [][NextClass]_vars

-----------------------------------------------------------------------------
(* Properties.  After a conduit update, last holds the call: the link j,   *)
(* the arguments, the project on entry (pre) and the locals at exit (loc). *)

Called == last.op = "call"

\* the link and the conduit of the last call, on entry and on exit
PreLink == last.pre.Link[last.j]

PreConduit == last.pre.Conduit[PreLink.subIndex]

PostLink == sp.Link[last.j]

PostConduit == sp.Conduit[PreLink.subIndex]

DryClasses == {"DRY", "UP_DRY", "DN_DRY"}

\* C1: after a call in which the link is closed by control, or the class
\* set by the distributor is DRY, UP_DRY or DN_DRY, or aMid <= FUDGE, the
\* stored flows are exactly zero, froude is zero and newDepth <= yFull.
C1_EarlyOutZeroFlow ==
    (Called /\ (PreLink.setting = 0
                \/ last.loc.distClass \in DryClasses
                \/ last.loc.aMid <= FUDGE))
    => /\ PostLink.newFlow = 0
       /\ PostConduit.q1 = 0
       /\ PostConduit.q2 = 0
       /\ PostLink.froude = 0
       /\ PostLink.newDepth <= PostLink.xsect.yFull

\* a closed link with both ends wet and a prior flow ends with zero flow
C1_Witness ==
    /\ Called
    /\ PreLink.setting = 0
    /\ last.loc.distClass \notin DryClasses
    /\ last.loc.aMid > FUDGE
    /\ PreConduit.q1 # 0
    /\ PostLink.newFlow = 0
    /\ PostConduit.q1 = 0

\* C2 as claimed: after every call, for any steps >= 0, a flow of the
\* opposite sign to the prior-iteration flow has magnitude <= 0.001.
C2_NoReversalAnySteps ==
    Called => (PostConduit.q1 * PreConduit.q1 < 0
               => fabs(PostConduit.q1) <= SnapFlow)

\* C2 amended: after every call with steps > 0, a flow of the opposite
\* sign to the prior-iteration flow has magnitude <= 0.001.
C2_NoReversalWhenRelaxed ==
    (Called /\ last.steps > 0)
    => (PostConduit.q1 * PreConduit.q1 < 0
        => fabs(PostConduit.q1) <= SnapFlow)

\* an under-relaxed call reverses the flow and stores exactly 0.001
C2_Witness ==
    /\ Called
    /\ last.steps > 0
    /\ PostConduit.q1 * PreConduit.q1 < 0
    /\ fabs(PostConduit.q1) = SnapFlow
    /\ fabs(last.loc.qLim) > SnapFlow

\* C3: after every call on a link with qLimit > 0,
\* |newFlow| <= qLimit * barrels.
C3_UserFlowCap ==
    (Called /\ PreLink.qLimit > 0)
    => fabs(PostLink.newFlow) <= PreLink.qLimit * PreConduit.barrels

\* the relaxed flow exceeds the limit and the stored flow is the limit
C3_Witness ==
    /\ Called
    /\ PreLink.qLimit > 0
    /\ fabs(last.loc.qRelax) > PreLink.qLimit
    /\ fabs(PostLink.newFlow) = PreLink.qLimit * PreConduit.barrels

\* C4: after every call with dt > 0, barrels > 0, L > 0 and aMid > FUDGE,
\* Link.dqdh is strictly positive, on the early-out path and on the full
\* momentum path.
C4_DqdhPositive ==
    (Called /\ last.dt > 0 /\ PreConduit.barrels > 0
            /\ PreConduit.modLength > 0 /\ last.loc.aMid > FUDGE)
    => (PostLink.dqdh.num > 0 /\ PostLink.dqdh.den > 0)

\* the full momentum path with all the weight on the upstream area
C4_Witness ==
    /\ Called
    /\ ~last.loc.early
    /\ last.loc.rho = 0
    /\ last.loc.aMid > FUDGE
    /\ PostLink.dqdh.num > 0
    /\ PostLink.dqdh.den > 0

-----------------------------------------------------------------------------
(* Relations between two executions of one call.  The second execution    *)
(* starts from the first's project on entry, changed in one place.        *)

\* factors by which the number of barrels is multiplied
KSet == {2, 3}

\* amounts by which the roughness factor is raised
RoughSteps == {1, 4, 20}

\* the project on entry of the last call with k times the barrels
ScaleBarrels(k) ==
    [last.pre EXCEPT !.Conduit[PreLink.subIndex].barrels = @ * k]

\* ... and with k times the flow of the previous time step as well
ScaleBarrelsAndOldFlow(k) ==
    [ScaleBarrels(k) EXCEPT !.Link[last.j].oldFlow = @ * k]

\* the project on entry of the last call with the roughness raised by d
RaiseRoughness(d) ==
    [last.pre EXCEPT !.Conduit[PreLink.subIndex].roughFactor = @ + d]

\* the last call run again from project s
Again(s) == dwflow_findConduitFlow(s, last.j, last.steps, last.omega, last.dt)

\* the second execution ends with k times the flow and volume of the
\* first and with the same per-barrel flow and depth
BarrelsLinear(s2, k) ==
    /\ s2.Link[last.j].newFlow = k * PostLink.newFlow
    /\ s2.Link[last.j].newVolume = k * PostLink.newVolume
    /\ s2.Conduit[PreLink.subIndex].q1 = PostConduit.q1
    /\ s2.Link[last.j].newDepth = PostLink.newDepth

\* C6 as claimed: with all inputs equal except barrels multiplied by k,
\* the second execution ends with k times newFlow and newVolume and the
\* same q1 and newDepth.
C6_BarrelsLinearAllElseEqual ==
    Called => \A k \in KSet : BarrelsLinear(Again(ScaleBarrels(k)).sp, k)

\* C6 amended: with barrels and Link.oldFlow both multiplied by k (the same
\* old flow per barrel) and all else equal, the second execution ends with
\* k times newFlow and newVolume and the same q1 and newDepth.
C6_BarrelsLinearSameOldFlowPerBarrel ==
    Called
    => \A k \in KSet : BarrelsLinear(Again(ScaleBarrelsAndOldFlow(k)).sp, k)

\* a multi-barrel conduit with an old flow takes the full momentum path
\* and stores a flow
C6_Witness ==
    /\ Called
    /\ ~last.loc.early
    /\ PreConduit.barrels > 1
    /\ PreLink.oldFlow # 0
    /\ PostLink.newFlow # 0
    /\ PostLink.newVolume > 0
    /\ \A k \in KSet : BarrelsLinear(Again(ScaleBarrelsAndOldFlow(k)).sp, k)

\* C7 as claimed: of two executions that differ only in roughFactor, the
\* one with the larger roughFactor ends with |newFlow| <= the other's, for
\* every qLast, steps >= 0 and omega.
C7_MonotoneFrictionAlways ==
    Called
    => \A d \in RoughSteps :
          fabs(Again(RaiseRoughness(d)).sp.Link[last.j].newFlow)
             <= fabs(PostLink.newFlow)

\* the Froude-number trigger of the normal-flow check can act on link j
FroudeTriggerOn(s, j) ==
    /\ s.NormalFlowLtd \in {"FROUDE", "BOTH"}
    /\ s.Node[s.Link[j].node1].type # "OUTFALL"
    /\ s.Node[s.Link[j].node2].type # "OUTFALL"

\* C7 amended: of two executions that differ only in roughFactor, the one
\* with the larger roughFactor ends with |newFlow| <= the other's, when the
\* Froude-number trigger of the normal-flow check is off for the conduit
\* and either steps = 0 or qLast is not of the opposite sign to the flow
\* found before under-relaxation.
C7_MonotoneFrictionNoChatter ==
    (Called /\ ~FroudeTriggerOn(last.pre, last.j)
            /\ (last.steps = 0 \/ last.loc.qLast * last.loc.qLim >= 0))
    => \A d \in RoughSteps :
          fabs(Again(RaiseRoughness(d)).sp.Link[last.j].newFlow)
             <= fabs(PostLink.newFlow)

\* an under-relaxed call whose flow is strictly smaller with more friction
C7_Witness ==
    /\ Called
    /\ ~last.loc.early
    /\ last.steps > 0
    /\ last.loc.qLast * last.loc.qLim > 0
    /\ ~FroudeTriggerOn(last.pre, last.j)
    /\ \E d \in RoughSteps :
          fabs(Again(RaiseRoughness(d)).sp.Link[last.j].newFlow)
             < fabs(PostLink.newFlow)

-----------------------------------------------------------------------------
(* The classifier *)

Classified == last.op = "class"

\* project s with the two ends of link j swapped
Mirror(s, j) ==
    [s EXCEPT !.Link[j].node1 = s.Link[j].node2,
              !.Link[j].node2 = s.Link[j].node1,
              !.Link[j].offset1 = s.Link[j].offset2,
              !.Link[j].offset2 = s.Link[j].offset1]

\* the class with the roles of the two ends exchanged
MirrorClass(c) ==
    CASE c = "UP_CRITICAL" -> "DN_CRITICAL"
      [] c = "DN_CRITICAL" -> "UP_CRITICAL"
      [] c = "UP_DRY" -> "DN_DRY"
      [] c = "DN_DRY" -> "UP_DRY"
      [] OTHER -> c

\* the class getFlowClass returns on the mirrored input of the last request
MirroredRequestClass ==
    getFlowClass(Mirror(last.pre, last.j), last.j, -last.q, last.h2, last.h1,
                 last.y2, last.y1, Div(last.y1 + last.y2, 2),
                 Div(last.y1 + last.y2, 2)).flowClass

\* C8: getFlowClass is mirror-symmetric: if it returns class C, then on the
\* input with the two ends swapped and q replaced by -q it returns
\* mirror(C); this includes q = 0.
C8_MirrorSymmetry ==
    Classified => MirroredRequestClass = MirrorClass(last.res.flowClass)

\* reverse flow with both ends wet and the upstream end critical, whose
\* mirror image is critical at the downstream end
C8_Witness ==
    /\ Classified
    /\ last.q < 0
    /\ last.y1 > FUDGE
    /\ last.y2 > FUDGE
    /\ last.res.flowClass = "UP_CRITICAL"
    /\ MirroredRequestClass = "DN_CRITICAL"

\* C9: getFlowClass leaves the link, conduit and node records unchanged;
\* findSurfArea calls it exactly once per conduit update and stores the
\* class it returned in Link.flowClass (raised to SUPCRITICAL later only
\* from SUBCRITICAL).
C9_ClassifierPureCalledOnce ==
    Called
    => /\ Len(last.loc.classCalls) = 1
       /\ last.loc.classCalls[1].sp = last.pre
       /\ last.loc.distClass = last.loc.classCalls[1].flowClass
       /\ \/ PostLink.flowClass = last.loc.distClass
          \/ /\ PostLink.flowClass = "SUPCRITICAL"
             /\ last.loc.distClass = "SUBCRITICAL"

\* the one classification changes the class stored by an earlier call
C9_Witness ==
    /\ Called
    /\ Len(last.loc.classCalls) = 1
    /\ last.loc.classCalls[1].sp = last.pre
    /\ last.loc.classCalls[1].flowClass # PreLink.flowClass
    /\ PostLink.flowClass = last.loc.classCalls[1].flowClass

-----------------------------------------------------------------------------
(* Frame of a conduit update *)

\* the other conduit link
OtherLink(j) == CHOOSE i \in Links : i # j

\* project s after a call for link j with the arguments of the last call
After(s, j) ==
    dwflow_findConduitFlow(s, j, last.steps, last.omega, last.dt).sp

MaxMagnitude == 30000

NaN == [k |-> "nan", n |-> 0, d |-> 1]

Inf(s) == [k |-> "inf", n |-> s, d |-> 1]

RECURSIVE GCD(_, _)
GCD(a, b) == IF b = 0 THEN a ELSE GCD(b, a % b)

\* the fraction n/d (d > 0) in lowest terms
Reduce(n, d) ==
    [k |-> "num", n |-> n \div GCD(fabs(n), d), d |-> d \div GCD(fabs(n), d)]

RECURSIVE RoundDouble(_, _)
RoundDouble(n, d) ==
    IF n = 0 THEN [k |-> "num", n |-> 0, d |-> 1]
    ELSE IF fabs(n) <= MaxMagnitude /\ d <= MaxMagnitude THEN Reduce(n, d)
    ELSE IF d = 1 THEN Inf(SGN(n))
    ELSE RoundDouble(SGN(n) * (fabs(n) \div 2), d \div 2)

\* the double nearest to n/d, for any d # 0
Rat(n, d) ==
    IF d < 0 THEN RoundDouble((-n) \div GCD(fabs(n), -d), (-d) \div GCD(fabs(n), -d))
    ELSE RoundDouble(n \div GCD(fabs(n), d), d \div GCD(fabs(n), d))

\* the double of a small integer, which is exact
Num(i) == [k |-> "num", n |-> i, d |-> 1]

IsNaN(x) == x.k = "nan"

IsNum(x) == x.k = "num"

\* the comparisons of a double with 0.0; each is false of NaN
EqZero(x) == x.k = "num" /\ x.n = 0

LtZero(x) == x.k # "nan" /\ x.n < 0

GtZero(x) == x.k # "nan" /\ x.n > 0

LeZero(x) == x.k # "nan" /\ x.n <= 0

\* x != x
NeSelf(x) == x.k = "nan"

dneg(x) == IF x.k = "nan" THEN NaN ELSE [x EXCEPT !.n = -x.n]

dadd(x, y) ==
    IF x.k = "nan" \/ y.k = "nan" THEN NaN
    ELSE IF x.k = "inf" /\ y.k = "inf"
         THEN (IF x.n = y.n THEN x ELSE NaN)
    ELSE IF x.k = "inf" THEN x
    ELSE IF y.k = "inf" THEN y
    ELSE Rat(x.n * y.d + y.n * x.d, x.d * y.d)

dsub(x, y) == dadd(x, dneg(y))

dmul(x, y) ==
    IF x.k = "nan" \/ y.k = "nan" THEN NaN
    ELSE IF x.k = "inf" \/ y.k = "inf"
         THEN (IF x.n = 0 \/ y.n = 0 THEN NaN ELSE Inf(SGN(x.n) * SGN(y.n)))
    ELSE Rat(x.n * y.n, x.d * y.d)

ddiv(x, y) ==
    IF x.k = "nan" \/ y.k = "nan" THEN NaN
    ELSE IF x.k = "inf"
         THEN (IF y.k = "inf" THEN NaN ELSE Inf(x.n * SGN(y.n)))
    ELSE IF y.k = "inf" THEN Num(0)
    ELSE IF y.n = 0 THEN (IF x.n = 0 THEN NaN ELSE Inf(SGN(x.n)))
    ELSE Rat(x.n * y.d, x.d * y.n)

dabs(x) == IF x.k = "nan" THEN NaN ELSE [x EXCEPT !.n = fabs(x.n)]

\* v * 2^e, stopping once the value has overflowed or underflowed
RECURSIVE Scale2(_, _)
Scale2(v, e) ==
    IF e = 0 \/ v.k # "num" \/ v.n = 0 THEN v
    ELSE IF e > 0 THEN Scale2(dmul(v, Num(2)), e - 1)
    ELSE Scale2(ddiv(v, Num(2)), e + 1)

\* the largest k with 2^k * d <= n, for n >= d > 0
RECURSIVE Log2Floor(_, _)
Log2Floor(n, d) == IF n < 2 * d THEN 0 ELSE 1 + Log2Floor(n, 2 * d)

RECURSIVE SqrtFloor(_, _, _)
SqrtFloor(n, lo, hi) ==
    IF hi - lo <= 1 THEN lo
    ELSE IF ((lo + hi) \div 2) * ((lo + hi) \div 2) <= n
         THEN SqrtFloor(n, (lo + hi) \div 2, hi)
         ELSE SqrtFloor(n, lo, (lo + hi) \div 2)

\* The C library.  sqrt is exact on squares of fractions; log and exp are
\* the piecewise-linear interpolations of log2 and 2^x between powers of
\* two, with ln 2 taken as 7/10, so that exp(log(x)) = x; the
\* trigonometric functions are their leading series terms.  Each has the
\* library's zeros, signs, infinities and NaN results.
libm_sqrt(x) ==
    IF x.k = "nan" \/ x.n < 0 THEN NaN
    ELSE IF x.k = "inf" THEN x
    ELSE Rat(SqrtFloor(x.n * x.d, 0, MaxMagnitude + 1), x.d)

Ln2 == Rat(7, 10)

libm_log(x) ==
    IF x.k = "nan" \/ x.n < 0 THEN NaN
    ELSE IF x.k = "inf" THEN x
    ELSE IF x.n = 0 THEN Inf(-1)
    ELSE IF x.n >= x.d
         THEN dmul(Ln2, dadd(Num(Log2Floor(x.n, x.d) - 1),
                             Scale2(x, -Log2Floor(x.n, x.d))))
    ELSE dneg(dmul(Ln2, dadd(Num(Log2Floor(x.d, x.n) - 1),
                             Scale2(Rat(x.d, x.n), -Log2Floor(x.d, x.n)))))

\* 2^t for a finite t
Exp2(t) ==
    Scale2(dadd(Num(1), dsub(t, Num(t.n \div t.d))),
           MAX(-MaxMagnitude, MIN(MaxMagnitude, t.n \div t.d)))

libm_exp(x) ==
    IF x.k = "nan" THEN NaN
    ELSE IF x.k = "inf" THEN (IF x.n > 0 THEN x ELSE Num(0))
    ELSE Exp2(ddiv(x, Ln2))

libm_log10(x) == ddiv(libm_log(x), libm_log(Num(10)))

libm_sin(x) ==
    IF x.k # "num" THEN NaN
    ELSE dsub(x, ddiv(dmul(x, dmul(x, x)), Num(6)))

libm_cos(x) ==
    IF x.k # "num" THEN NaN
    ELSE dsub(Num(1), ddiv(dmul(x, x), Num(2)))

libm_tan(x) == ddiv(libm_sin(x), libm_cos(x))

HalfPi == Rat(11, 7)

libm_atan(x) ==
    IF x.k = "nan" THEN NaN
    ELSE IF x.k = "inf" THEN (IF x.n > 0 THEN HalfPi ELSE dneg(HalfPi))
    ELSE dmul(HalfPi, ddiv(x, dadd(Num(1), dabs(x))))

libm_asin(x) ==
    IF x.k # "num" \/ fabs(x.n) > x.d THEN NaN
    ELSE dmul(HalfPi, x)

libm_acos(x) ==
    IF x.k # "num" \/ fabs(x.n) > x.d THEN NaN
    ELSE dmul(HalfPi, dsub(Num(1), x))

\* exp(r1 * log(r2)) for r2 > 0: the power r2^r1, exact for an integer r1
RECURSIVE PowInt(_, _, _)
PowInt(v, base, e) ==
    IF e = 0 \/ v.k # "num" \/ v.n = 0 THEN v
    ELSE IF e > 0 THEN PowInt(dmul(v, base), base, e - 1)
    ELSE PowInt(ddiv(v, base), base, e + 1)

libm_exp_log(r1, r2) ==
    IF r1.k = "num" /\ r1.d = 1 /\ r2.k = "num"
    THEN PowInt(Num(1), r2, r1.n)
    ELSE libm_exp(dmul(r1, libm_log(r2)))

\* ---------------------------------------------------------------------
\* The lexer.  A formula is a sequence of characters, S[0] .. S[Len-1] in
\* the source's numbering, followed by the terminating NUL.  The shared
\* parse state m is the record of the MathexprShared fields, to which the
\* model adds lex (the token code a parsing function holds in *lex),
\* nAlloc (the number of tree nodes allocated so far) and heap (the tree
\* nodes allocated and not freed).
\* ---------------------------------------------------------------------

NUL == "NUL"

DigitChars == <<"0", "1", "2", "3", "4", "5", "6", "7", "8", "9">>

UpperChars ==
    <<"A", "B", "C", "D", "E", "F", "G", "H", "I", "J", "K", "L", "M",
      "N", "O", "P", "Q", "R", "S", "T", "U", "V", "W", "X", "Y", "Z">>

LowerChars ==
    <<"a", "b", "c", "d", "e", "f", "g", "h", "i", "j", "k", "l", "m",
      "n", "o", "p", "q", "r", "s", "t", "u", "v", "w", "x", "y", "z">>

IndexIn(seq, c) ==
    IF \E i \in DOMAIN seq : seq[i] = c
    THEN CHOOSE i \in DOMAIN seq : seq[i] = c
    ELSE 0

toupper(c) == IF IndexIn(LowerChars, c) > 0 THEN UpperChars[IndexIn(LowerChars, c)] ELSE c

sametext(s1, s2) ==
    /\ Len(s1) = Len(s2)
    /\ \A i \in DOMAIN s1 : toupper(s1[i]) = toupper(s2[i])

isDigit(c) == IndexIn(DigitChars, c) > 0

isLetter(c) == IndexIn(LowerChars, c) > 0 \/ IndexIn(UpperChars, c) > 0 \/ c = "_"

MathFunc ==
    << <<"C", "O", "S">>, <<"S", "I", "N">>, <<"T", "A", "N">>,
       <<"C", "O", "T">>, <<"A", "B", "S">>, <<"S", "G", "N">>,
       <<"S", "Q", "R", "T">>, <<"L", "O", "G">>, <<"E", "X", "P">>,
       <<"A", "S", "I", "N">>, <<"A", "C", "O", "S">>, <<"A", "T", "A", "N">>,
       <<"A", "C", "O", "T">>, <<"S", "I", "N", "H">>, <<"C", "O", "S", "H">>,
       <<"T", "A", "N", "H">>, <<"C", "O", "T", "H">>,
       <<"L", "O", "G", "1", "0">>, <<"S", "T", "E", "P">> >>

\* the character S[p]
CharAt(m, p) == IF p >= 0 /\ p < m.Len THEN m.S[p + 1] ELSE NUL

RECURSIVE getTokenLoop(_)
getTokenLoop(m) ==
    IF m.Pos <= m.Len
       /\ (isLetter(CharAt(m, m.Pos)) \/ isDigit(CharAt(m, m.Pos)))
    THEN getTokenLoop([m EXCEPT !.Token = Append(@, CharAt(m, m.Pos)),
                                !.Pos = @ + 1])
    ELSE m

getToken(m) == [getTokenLoop([m EXCEPT !.Token = <<>>]) EXCEPT !.Pos = @ - 1]

getMathFunc(m) ==
    IF \E i \in DOMAIN MathFunc : sametext(MathFunc[i], m.Token)
    THEN (CHOOSE i \in DOMAIN MathFunc : sametext(MathFunc[i], m.Token)) + 9
    ELSE 0

\* the caller's callback: the one variable of the project is named A and
\* has index 0
getVariableIndex(token) == IF token = <<"A">> THEN 0 ELSE -1

\* getVariable stores the index in Ivar and returns the token code
getVariable(m) == [m EXCEPT !.Ivar = getVariableIndex(m.Token)]

\* the value of a string of digits, and of the digits after a point
RECURSIVE DigitsValue(_, _)
DigitsValue(s, v) ==
    IF s = <<>> THEN v
    ELSE DigitsValue(Tail(s),
                     dadd(dmul(v, Num(10)), Num(IndexIn(DigitChars, Head(s)) - 1)))

RECURSIVE FractionValue(_, _)
FractionValue(s, scale) ==
    IF s = <<>> THEN Num(0)
    ELSE dadd(dmul(Num(IndexIn(DigitChars, Head(s)) - 1), scale),
              FractionValue(Tail(s), ddiv(scale, Num(10))))

RECURSIVE ExponentValue(_, _)
ExponentValue(s, e) ==
    IF s = <<>> \/ e > MaxMagnitude THEN e
    ELSE ExponentValue(Tail(s), 10 * e + IndexIn(DigitChars, Head(s)) - 1)

\* the digits of s from position i on
RECURSIVE DigitRun(_, _)
DigitRun(s, i) ==
    IF i <= Len(s) /\ isDigit(s[i]) THEN <<s[i]>> \o DigitRun(s, i + 1)
    ELSE <<>>

\* atof of digits [. digits] [E [sign] digits], in three stages: the
\* whole part, the fraction that starts at position i, the exponent that
\* starts at position i
AtofExponent(v, s, i) ==
    IF i > Len(s) THEN v
    ELSE PowInt(v, Num(10),
                (IF s[i + 1] = "-" THEN -1 ELSE 1)
                * ExponentValue(
                      DigitRun(s, IF s[i + 1] \in {"-", "+"} THEN i + 2 ELSE i + 1),
                      0))

AtofFraction(v, s, i) ==
    AtofExponent(
        IF i <= Len(s) /\ s[i] = "."
        THEN dadd(v, FractionValue(DigitRun(s, i + 1), Rat(1, 10)))
        ELSE v,
        s,
        IF i <= Len(s) /\ s[i] = "."
        THEN i + 1 + Len(DigitRun(s, i + 1))
        ELSE i)

atof(s) ==
    AtofFraction(DigitsValue(DigitRun(s, 1), Num(0)), s, 1 + Len(DigitRun(s, 1)))

\* getNumber works on the record [m, sNumber, errflag]
RECURSIVE getNumberDigits(_)
getNumberDigits(g) ==
    IF g.m.Pos < g.m.Len /\ isDigit(CharAt(g.m, g.m.Pos))
    THEN getNumberDigits([g EXCEPT !.sNumber = Append(@, CharAt(g.m, g.m.Pos)),
                                   !.m.Pos = @ + 1])
    ELSE g

getNumberExpDigits(g) ==
    IF g.m.Pos >= g.m.Len \/ ~isDigit(CharAt(g.m, g.m.Pos))
    THEN [g EXCEPT !.errflag = 1]
    ELSE getNumberDigits(g)

getNumberExpSign(g) ==
    IF g.m.Pos >= g.m.Len THEN [g EXCEPT !.errflag = 1]
    ELSE IF CharAt(g.m, g.m.Pos) \in {"-", "+"}
         THEN getNumberExpDigits(
                  [g EXCEPT !.sNumber = Append(@, CharAt(g.m, g.m.Pos)),
                            !.m.Pos = @ + 1])
    ELSE getNumberExpDigits(g)

getNumberExponent(g) ==
    IF g.m.Pos < g.m.Len /\ CharAt(g.m, g.m.Pos) \in {"e", "E"}
    THEN getNumberExpSign([g EXCEPT !.sNumber = Append(@, "E"), !.m.Pos = @ + 1])
    ELSE g

getNumberFraction(g) ==
    IF g.m.Pos >= g.m.Len THEN g
    ELSE IF CharAt(g.m, g.m.Pos) = "."
         THEN getNumberExponent(
                  getNumberDigits([g EXCEPT !.sNumber = Append(@, "."),
                                            !.m.Pos = @ + 1]))
    ELSE getNumberExponent(g)

getNumberScan(m) ==
    getNumberFraction(getNumberDigits([m |-> m, sNumber |-> <<>>, errflag |-> 0]))

\* the state after getNumber, its return value stored in Fvalue with the
\* sign the caller gives it (1 in getLex, -1 in getOperand)
getNumberResult(g, sign) ==
    [g.m EXCEPT !.Pos = @ - 1,
                !.Fvalue = IF g.errflag = 1 THEN Num(0)
                           ELSE dmul(Num(sign), atof(g.sNumber))]

getNumber(m, sign) == getNumberResult(getNumberScan(m), sign)

\* getOperand: the token code in lex; a '-' in front of a digit, at the
\* start or after '(', becomes a negative number
getOperand(m) ==
    IF CharAt(m, m.Pos) = "(" THEN [m EXCEPT !.lex = 1]
    ELSE IF CharAt(m, m.Pos) = ")" THEN [m EXCEPT !.lex = 2]
    ELSE IF CharAt(m, m.Pos) = "+" THEN [m EXCEPT !.lex = 3]
    ELSE IF CharAt(m, m.Pos) = "-"
         THEN (IF m.Pos < m.Len - 1 /\ isDigit(CharAt(m, m.Pos + 1))
                  /\ m.CurLex \in {0, 1}
               THEN [getNumber([m EXCEPT !.Pos = @ + 1], -1) EXCEPT !.lex = 7]
               ELSE [m EXCEPT !.lex = 4])
    ELSE IF CharAt(m, m.Pos) = "*" THEN [m EXCEPT !.lex = 5]
    ELSE IF CharAt(m, m.Pos) = "/" THEN [m EXCEPT !.lex = 6]
    ELSE IF CharAt(m, m.Pos) = "^" THEN [m EXCEPT !.lex = 31]
    ELSE [m EXCEPT !.lex = 0]

RECURSIVE skipSpaces(_)
skipSpaces(m) ==
    IF m.Pos < m.Len /\ CharAt(m, m.Pos) = " "
    THEN skipSpaces([m EXCEPT !.Pos = @ + 1])
    ELSE m

\* the token code of a function or variable name
getLexName(m) ==
    IF getMathFunc(m) # 0 THEN [m EXCEPT !.lex = getMathFunc(m)]
    ELSE IF getVariable(m).Ivar >= 0 THEN [getVariable(m) EXCEPT !.lex = 8]
    ELSE [getVariable(m) EXCEPT !.lex = 0]

getLexOperand(m) ==
    IF m.lex # 0 THEN m
    ELSE IF isLetter(CharAt(m, m.Pos)) THEN getLexName(getToken(m))
    ELSE IF isDigit(CharAt(m, m.Pos)) THEN [getNumber(m, 1) EXCEPT !.lex = 7]
    ELSE m

getLexFinish(m) ==
    [m EXCEPT !.Pos = @ + 1, !.PrevLex = m.CurLex, !.CurLex = m.lex]

getLexAt(m) ==
    IF m.Pos >= m.Len THEN [m EXCEPT !.lex = 0]
    ELSE getLexFinish(getLexOperand(getOperand(m)))

getLex(m) == getLexAt(skipSpaces(m))

\* ---------------------------------------------------------------------
\* The parser.  A tree node is a record [id, opcode, ivar, fvalue, left,
\* right]; id is the number of the allocation that made it.  A parsing
\* function returns the record [m, t] of the parse state and of the tree
\* it returns.
\* ---------------------------------------------------------------------

NULL == [id |-> 0]

\* the node newNode returns on its n-th allocation
newNode(n) ==
    [id |-> n, opcode |-> 0, ivar |-> -1, fvalue |-> Num(0),
     left |-> NULL, right |-> NULL]

\* the parse state after newNode
Allocated(m) == [m EXCEPT !.nAlloc = @ + 1, !.heap = @ \cup {m.nAlloc + 1}]

SetErr(m) == [m EXCEPT !.Err = 1]

RECURSIVE getTree(_)
RECURSIVE ExponentLoop(_)

\* the exponent: a number, its node and the node of the power
ExponentClose(m, node, bracket) ==
    IF bracket = 1 /\ m.lex # 2 THEN [m |-> SetErr(m), t |-> NULL]
    ELSE ExponentLoop([m |-> getLex(m), t |-> node])

ExponentLiteral(left, m, bracket) ==
    IF m.lex # 7 THEN [m |-> SetErr(m), t |-> NULL]
    ELSE ExponentClose(
             IF bracket = 1 THEN getLex(Allocated(Allocated(m)))
             ELSE Allocated(Allocated(m)),
             [newNode(m.nAlloc + 2) EXCEPT
                 !.left = left,
                 !.right = [newNode(m.nAlloc + 1) EXCEPT !.opcode = 7,
                                                         !.fvalue = m.Fvalue],
                 !.opcode = 31],
             bracket)

ExponentOpen(left, m) ==
    ExponentLiteral(left,
                    IF m.lex = 1 THEN getLex(m) ELSE m,
                    IF m.lex = 1 THEN 1 ELSE 0)

ExponentLoop(r) ==
    IF r.m.lex # 31 THEN r
    ELSE ExponentOpen(r.t, getLex(r.m))

\* the argument of a function, hung under the function's node
FunctionArgument(node, r) == [m |-> r.m, t |-> [node EXCEPT !.left = r.t]]

\* the state in which getSingleOp calls getTree: after "(", or after a
\* function's name and its "(" (next), the function's node allocated
SubTreeStart(m, next) ==
    IF m.lex = 1 THEN [m EXCEPT !.Bc = @ + 1]
    ELSE Allocated([next EXCEPT !.Bc = @ + 1])

\* the operand made of the tree getTree returns
SubTreeOperand(m, r) ==
    IF m.lex = 1 THEN r
    ELSE FunctionArgument([newNode(m.nAlloc + 1) EXCEPT !.opcode = m.lex], r)

\* getSingleOp up to its operand; next is the token after m's;
\* ret = 1 once the function has returned
FunctionCall(m, next) ==
    IF m.lex = 1 \/ (m.lex >= 10 /\ m.lex <= 30 /\ next.lex = 1)
    THEN SubTreeOperand(m, getTree(SubTreeStart(m, next))) @@ [ret |-> 0]
    ELSE IF m.lex < 7 \/ m.lex = 9 \/ m.lex > 30
         THEN [m |-> SetErr(m), t |-> NULL, ret |-> 1]
    ELSE IF m.lex = 7
         THEN [m |-> Allocated(m),
               t |-> [newNode(m.nAlloc + 1) EXCEPT
                         !.opcode = 7, !.fvalue = m.Fvalue],
               ret |-> 0]
    ELSE IF m.lex = 8
         THEN [m |-> Allocated(m),
               t |-> [newNode(m.nAlloc + 1) EXCEPT
                         !.opcode = 8, !.ivar = m.Ivar],
               ret |-> 0]
    ELSE [m |-> SetErr(next), t |-> NULL, ret |-> 1]

\* getSingleOp from the token after the operand on
AfterOperand(r) ==
    IF r.ret = 1 THEN [m |-> r.m, t |-> r.t]
    ELSE ExponentLoop([m |-> getLex(r.m), t |-> r.t])

getSingleOp(m) == AfterOperand(FunctionCall(m, getLex(m)))

\* getOp: the loop over * and /; ret = 1 once the function has returned
RECURSIVE getOpLoop(_)

getOpFactor(left, opcode, r) ==
    IF r.m.Err # 0 THEN [m |-> Allocated(r.m), t |-> NULL, ret |-> 1]
    ELSE getOpLoop([m |-> Allocated(r.m),
                    t |-> [newNode(r.m.nAlloc + 1) EXCEPT
                              !.left = left, !.right = r.t, !.opcode = opcode],
                    ret |-> 0])

getOpLoop(r) ==
    IF r.m.lex \notin {5, 6} THEN r
    ELSE getOpFactor(r.t, r.m.lex, getSingleOp(getLex(r.m)))

getOpNegate(r, neg) ==
    IF r.ret = 1 \/ neg = 0 THEN [m |-> r.m, t |-> r.t]
    ELSE IF r.m.Err # 0 THEN [m |-> Allocated(r.m), t |-> NULL]
    ELSE [m |-> Allocated(r.m),
          t |-> [newNode(r.m.nAlloc + 1) EXCEPT !.left = r.t, !.opcode = 9]]

getOpTerm(m, neg) ==
    getOpNegate(getOpLoop(getSingleOp(m) @@ [ret |-> 0]), neg)

getOpSign(m) ==
    getOpTerm(IF m.PrevLex \in {0, 1} /\ m.lex \in {3, 4} THEN getLex(m) ELSE m,
              IF m.PrevLex \in {0, 1} /\ m.lex = 4 THEN 1 ELSE 0)

getOp(m) == getOpSign(getLex(m))

\* getTree: the loop over + and -
RECURSIVE getTreeLoop(_)

getTreeTerm(left, opcode, r) ==
    IF r.m.Err # 0 THEN [m |-> Allocated(r.m), t |-> left]
    ELSE getTreeLoop([m |-> Allocated(r.m),
                      t |-> [newNode(r.m.nAlloc + 1) EXCEPT
                                !.left = left, !.right = r.t, !.opcode = opcode]])

getTreeLoop(r) ==
    IF r.m.lex = 0 THEN r
    ELSE IF r.m.lex = 2 THEN [r EXCEPT !.m.Bc = @ - 1]
    ELSE IF r.m.lex \notin {3, 4} THEN [r EXCEPT !.m = SetErr(@)]
    ELSE getTreeTerm(r.t, r.m.lex, getOp(r.m))

getTree(m) == getTreeLoop(getOp(m))

\* the nodes of a tree
RECURSIVE TreeNodes(_)
TreeNodes(t) ==
    IF t.id = 0 THEN {}
    ELSE {t.id} \cup TreeNodes(t.left) \cup TreeNodes(t.right)

\* deleteTree: the heap without the nodes of the tree
deleteTree(heap, t) == heap \ TreeNodes(t)

\* traverseTree that visits the right subtree before the left one
RECURSIVE traverseTree_rightFirst(_)
traverseTree_rightFirst(t) ==
    IF t.id = 0 THEN <<>>
    ELSE traverseTree_rightFirst(t.right) \o traverseTree_rightFirst(t.left)
         \o <<[opcode |-> t.opcode, ivar |-> t.ivar, fvalue |-> t.fvalue]>>

\* traverseTree: the postfix program, left subtree, right subtree, root
RECURSIVE traverseTree(_)
traverseTree(t) ==
    IF t.id = 0 THEN <<>>
    ELSE traverseTree(t.left) \o traverseTree(t.right)
         \o <<[opcode |-> t.opcode, ivar |-> t.ivar, fvalue |-> t.fvalue]>>

\* mathexpr_create: the program (the empty sequence is the NULL result),
\* the parse state it leaves and the tree nodes it leaves allocated
MathexprStart(m0, formula) ==
    [m0 EXCEPT !.Err = 0, !.PrevLex = 0, !.CurLex = 0, !.S = formula,
               !.Len = Len(formula), !.Pos = 0, !.Bc = 0]

MathexprResult(r) ==
    [expr |-> IF r.m.Bc = 0 /\ r.m.Err = 0 THEN traverseTree(r.t) ELSE <<>>,
     m |-> [r.m EXCEPT !.heap = deleteTree(r.m.heap, r.t)],
     tree |-> r.t]

mathexpr_create(m0, formula) == MathexprResult(getTree(MathexprStart(m0, formula)))

\* ---------------------------------------------------------------------
\* The evaluator.  The stack is the sequence ExprStack[0 .. stackindex].
\* ---------------------------------------------------------------------

\* the value a function opcode leaves on the top of the stack
MathFunction(opcode, r1) ==
    CASE opcode = 10 -> libm_cos(r1)
      [] opcode = 11 -> libm_sin(r1)
      [] opcode = 12 -> libm_tan(r1)
      [] opcode = 13 -> IF EqZero(r1) THEN Num(0) ELSE ddiv(Num(1), libm_tan(r1))
      [] opcode = 14 -> dabs(r1)
      [] opcode = 15 -> IF LtZero(r1) THEN Num(-1)
                        ELSE IF GtZero(r1) THEN Num(1) ELSE Num(0)
      [] opcode = 16 -> IF LtZero(r1) THEN Num(0) ELSE libm_sqrt(r1)
      [] opcode = 17 -> IF LeZero(r1) THEN Num(0) ELSE libm_log(r1)
      [] opcode = 18 -> libm_exp(r1)
      [] opcode = 19 -> libm_asin(r1)
      [] opcode = 20 -> libm_acos(r1)
      [] opcode = 21 -> libm_atan(r1)
      [] opcode = 22 -> dsub(HalfPi, libm_atan(r1))
      [] opcode = 23 -> ddiv(dsub(libm_exp(r1), libm_exp(dneg(r1))), Num(2))
      [] opcode = 24 -> ddiv(dadd(libm_exp(r1), libm_exp(dneg(r1))), Num(2))
      [] opcode = 25 -> ddiv(dsub(libm_exp(r1), libm_exp(dneg(r1))),
                             dadd(libm_exp(r1), libm_exp(dneg(r1))))
      [] opcode = 26 -> ddiv(dadd(libm_exp(r1), libm_exp(dneg(r1))),
                             dsub(libm_exp(r1), libm_exp(dneg(r1))))
      [] opcode = 27 -> IF EqZero(r1) THEN Num(0) ELSE libm_log10(r1)
      [] opcode = 28 -> IF LeZero(r1) THEN Num(0) ELSE Num(1)
      [] OTHER -> r1

\* r2 ^ r1
Power(r2, r1) == IF LeZero(r2) THEN Num(0) ELSE libm_exp_log(r1, r2)

BinaryOp(opcode, r2, r1) ==
    CASE opcode = 3 -> dadd(r2, r1)
      [] opcode = 4 -> dsub(r2, r1)
      [] opcode = 5 -> dmul(r2, r1)
      [] opcode = 6 -> ddiv(r2, r1)
      [] opcode = 31 -> Power(r2, r1)

\* one node of the program; value is what getVariableValue returns
ExecNode(node, stack, value) ==
    IF node.opcode \in {3, 4, 5, 6, 31}
    THEN SubSeq([stack EXCEPT ![Len(stack) - 1] =
                    BinaryOp(node.opcode, stack[Len(stack) - 1], stack[Len(stack)])],
                1, Len(stack) - 1)
    ELSE IF node.opcode = 7 THEN Append(stack, node.fvalue)
    ELSE IF node.opcode = 8 THEN Append(stack, value)
    ELSE IF node.opcode = 9 THEN [stack EXCEPT ![Len(stack)] = dneg(@)]
    ELSE IF node.opcode \in 10..28
         THEN [stack EXCEPT ![Len(stack)] = MathFunction(node.opcode, @)]
    ELSE stack

RECURSIVE ExecProgram(_, _, _)
ExecProgram(expr, stack, value) ==
    IF expr = <<>> THEN stack
    ELSE ExecProgram(Tail(expr), ExecNode(Head(expr), stack, value), value)

\* the top of the stack, returned as it is
StackResult_raw(stack) == stack[Len(stack)]

\* the top of the stack, 0 in the place of a NaN
StackResult(stack) ==
    IF NeSelf(stack[Len(stack)]) THEN Num(0) ELSE stack[Len(stack)]

mathexpr_eval(expr, value) == StackResult(ExecProgram(expr, <<Num(0)>>, value))

\* ---------------------------------------------------------------------
\* The formulas the evaluator is run on: every concatenation of at most
\* MaxPieces pieces, the formulas of two and of three operands joined by
\* binary operators, with and without a sign or a pair of parentheses, and
\* a few longer ones.
\* ---------------------------------------------------------------------

MaxPieces == 3

Pieces ==
    { <<"2">>, <<"3">>, <<"A">>, <<"B">>, <<"E">>, <<".">>, <<"$">>, <<" ">>,
      <<"+">>, <<"-">>, <<"*">>, <<"/">>, <<"^">>, <<"(">>, <<")">>,
      <<"a", "b", "s">>,
      <<"S", "T", "E", "P", "(">>, <<"S", "Q", "R", "T", "(">>,
      <<"L", "O", "G", "(">>, <<"L", "O", "G", "1", "0", "(">>,
      <<"C", "O", "T", "(">>, <<"C", "O", "T", "H", "(">>,
      <<"A", "S", "I", "N", "(">> }

RECURSIVE PieceFormulas(_)
PieceFormulas(n) ==
    IF n = 0 THEN {<<>>}
    ELSE PieceFormulas(n - 1)
         \cup {f \o p : f \in PieceFormulas(n - 1), p \in Pieces}

Operands == {<<"2">>, <<"3">>, <<"A">>}

Operators == {<<"+">>, <<"-">>, <<"*">>, <<"/">>, <<"^">>}

OperatorFormulas ==
    {x \o o1 \o y \o o2 \o z :
        x \in Operands \cup {<<"-", "2">>, <<"-", "A">>},
        o1 \in Operators, y \in Operands, o2 \in Operators, z \in Operands}
    \cup {x \o o1 \o <<"(">> \o y \o o2 \o z \o <<")">> :
        x \in Operands, o1 \in Operators, y \in Operands \cup {<<"-", "3">>},
        o2 \in Operators \ {<<"^">>}, z \in Operands}
    \cup {<<"(">> \o x \o o1 \o y \o <<")">> \o o2 \o z :
        x \in Operands \cup {<<"-", "2">>}, o1 \in Operators, y \in Operands,
        o2 \in Operators, z \in Operands}
    \cup {s \o x \o <<"^">> \o y :
        s \in {<<"-">>, <<"+">>, <<"(", "-">>}, x \in Operands \cup {<<"(", "2", ")">>},
        y \in {<<"2">>, <<"(", "2", ")">>, <<"(", "-", "2", ")">>, <<"-", "2">>,
               <<"(", "(", "2", ")", ")">>, <<"(", "A", ")">>,
               <<"2", "E", "-", "3">>}}

LongFormulas ==
    { <<"2", "*", "(", "A", "+", "3", ")", "^", "2", " ", "-", " ",
        "S", "T", "E", "P", "(", "A", ")">>,
      <<"S", "T", "E", "P", "(", "L", "O", "G", "1", "0", "(", "A", ")", ")">>,
      <<"S", "T", "E", "P", "(", "L", "O", "G", "(", "A", ")", ")">>,
      <<"L", "O", "G", "(", "A", ")", "+", "S", "Q", "R", "T", "(", "A", ")", "+",
        "A", "^", "2", "+", "A", "S", "I", "N", "(", "2", ")">>,
      <<"C", "O", "T", "H", "(", "A", ")", "*", "0">>,
      <<"2", ".", "5", "e", "1", "/", "A">>,
      <<"A", "/", "A", "-", "2", "E", "+">>,
      <<"(", "2", "$", ")", ")">>,
      <<"2", " ", "B", " ", "s", "t", "e", "p">>,
      <<"2", "+", "3", "*", "(", "2", "+", "3", "*", "(", "2", "+", "3", "*",
        "(", "2", "+", "3", "*", "(", "2", ")", ")", ")", ")">> }

Formulas == PieceFormulas(MaxPieces) \cup OperatorFormulas \cup LongFormulas

\* the values getVariableValue returns for the variable A
VariableValues == {Num(-1), Num(0), Num(5)}

\* the parse state of a project that has built no formula yet
FreshMathexpr ==
    [S |-> <<>>, Len |-> 0, Pos |-> 0, PrevLex |-> 0, CurLex |-> 0,
     Err |-> 0, Bc |-> 0, Fvalue |-> Num(0), Ivar |-> 0, Token |-> <<>>,
     lex |-> 0, nAlloc |-> 0, heap |-> {}]

InitExpr ==
    /\ sp = [MathexprShared |-> FreshMathexpr]
    /\ \E f \in Formulas : last = [op |-> "formula", formula |-> f]
    /\ nSteps = 0

\* mathexpr_create(sp, formula, getVar)
Created(c) ==
    /\ sp' = [sp EXCEPT !.MathexprShared = c.m]
    /\ last' = [op |-> "create", formula |-> last.formula,
                expr |-> c.expr, tree |-> c.tree]
    /\ nSteps' = nSteps + 1

CreateExpr ==
    /\ last.op = "formula"
    /\ Created(mathexpr_create(sp.MathexprShared, last.formula))

\* mathexpr_eval(sp, expr, getVariableValue) on a program that was built
EvalExpr(value) ==
    /\ last.op = "create"
    /\ last.expr # <<>>
    /\ last' = [last EXCEPT !.op = "eval"]
                 @@ [value |-> value, result |-> mathexpr_eval(last.expr, value)]
    /\ nSteps' = nSteps + 1
    /\ UNCHANGED sp

NextExpr ==
    \/ CreateExpr
    \/ \E value \in VariableValues : EvalExpr(value)

SpecExpr == InitExpr /\ [][NextExpr]_vars

\* ---------------------------------------------------------------------
\* Properties of the expression evaluator.
\* ---------------------------------------------------------------------

Built == last.op \in {"create", "eval"} /\ last.expr # <<>>

Refused == last.op = "create" /\ last.expr = <<>>

Evaluated == last.op = "eval"

\* The tokens of a formula, read by getLex from left to right to the end
\* of the formula; first is the character a token starts with, errflag
\* the flag getNumber raised while it read a number.
TokenAt(m0, m1) ==
    [lex |-> m1.lex, fvalue |-> m1.Fvalue, ivar |-> m1.Ivar,
     first |-> CharAt(m0, m0.Pos),
     errflag |-> IF m1.lex # 7 THEN 0
                 ELSE IF CharAt(m0, m0.Pos) = "-"
                      THEN getNumberScan([m0 EXCEPT !.Pos = @ + 1]).errflag
                 ELSE getNumberScan(m0).errflag]

RECURSIVE TokensFrom(_)
TokensFrom(m) ==
    IF skipSpaces(m).Pos >= m.Len THEN <<>>
    ELSE <<TokenAt(skipSpaces(m), getLex(m))>> \o TokensFrom(getLex(m))

Tokens(formula) == TokensFrom(MathexprStart(FreshMathexpr, formula))

LexCodes(formula) == [i \in DOMAIN Tokens(formula) |-> Tokens(formula)[i].lex]

\* the tokens with every minus sign a token of its own
RECURSIVE SignsApart(_)
SignsApart(ts) ==
    IF ts = <<>> THEN <<>>
    ELSE IF Head(ts).lex = 7 /\ Head(ts).first = "-"
         THEN << [Head(ts) EXCEPT !.lex = 4],
                 [Head(ts) EXCEPT !.fvalue = dneg(@), !.first = "0"] >>
              \o SignsApart(Tail(ts))
    ELSE <<Head(ts)>> \o SignsApart(Tail(ts))

\* The value of a token sequence under the usual rules, by recursive
\* descent: a sum of products of powers, a sign in front of the first
\* product of a sum, a power x ^ y ^ z read as x ^ (y ^ z).  Each operator
\* returns [ok, v, i]: whether it could read its part, the value, and the
\* position of the next token.
LexAt(ts, i) == IF i <= Len(ts) THEN ts[i].lex ELSE 0

RECURSIVE UsualSum(_, _, _)
RECURSIVE UsualPower(_, _, _)

UsualClose(r, ts, opcode) ==
    IF r.ok /\ LexAt(ts, r.i) = 2
    THEN [ok |-> TRUE, i |-> r.i + 1,
          v |-> IF opcode = 0 THEN r.v ELSE MathFunction(opcode, r.v)]
    ELSE [r EXCEPT !.ok = FALSE]

UsualPrimary(ts, i, value) ==
    IF LexAt(ts, i) = 7 THEN [ok |-> TRUE, v |-> ts[i].fvalue, i |-> i + 1]
    ELSE IF LexAt(ts, i) = 8 THEN [ok |-> TRUE, v |-> value, i |-> i + 1]
    ELSE IF LexAt(ts, i) = 1 THEN UsualClose(UsualSum(ts, i + 1, value), ts, 0)
    ELSE IF LexAt(ts, i) \in 10..28 /\ LexAt(ts, i + 1) = 1
         THEN UsualClose(UsualSum(ts, i + 2, value), ts, ts[i].lex)
    ELSE [ok |-> FALSE, v |-> NaN, i |-> i]

UsualExponent(base, e) ==
    [ok |-> base.ok /\ e.ok, v |-> Power(base.v, e.v), i |-> e.i]

UsualPowerOf(base, ts, value) ==
    IF base.ok /\ LexAt(ts, base.i) = 31
    THEN UsualExponent(base, UsualPower(ts, base.i + 1, value))
    ELSE base

UsualPower(ts, i, value) == UsualPowerOf(UsualPrimary(ts, i, value), ts, value)

RECURSIVE UsualProductLoop(_, _, _)

UsualFactor(left, opcode, right, ts, value) ==
    IF ~right.ok THEN right
    ELSE UsualProductLoop([right EXCEPT !.v = BinaryOp(opcode, left.v, right.v)],
                          ts, value)

UsualProductLoop(left, ts, value) ==
    IF left.ok /\ LexAt(ts, left.i) \in {5, 6}
    THEN UsualFactor(left, LexAt(ts, left.i),
                     UsualPower(ts, left.i + 1, value), ts, value)
    ELSE left

UsualProduct(ts, i, value) == UsualProductLoop(UsualPower(ts, i, value), ts, value)

RECURSIVE UsualSumLoop(_, _, _)

UsualTerm(left, opcode, right, ts, value) ==
    IF ~right.ok THEN right
    ELSE UsualSumLoop([right EXCEPT !.v = BinaryOp(opcode, left.v, right.v)],
                      ts, value)

UsualSumLoop(left, ts, value) ==
    IF left.ok /\ LexAt(ts, left.i) \in {3, 4}
    THEN UsualTerm(left, LexAt(ts, left.i),
                   UsualProduct(ts, left.i + 1, value), ts, value)
    ELSE left

UsualNegated(r) == [r EXCEPT !.v = dneg(@)]

UsualSum(ts, i, value) ==
    IF LexAt(ts, i) = 4
    THEN UsualSumLoop(UsualNegated(UsualProduct(ts, i + 1, value)), ts, value)
    ELSE IF LexAt(ts, i) = 3
         THEN UsualSumLoop(UsualProduct(ts, i + 1, value), ts, value)
    ELSE UsualSumLoop(UsualProduct(ts, i, value), ts, value)

\* the whole formula read, and its value with 0 in the place of a NaN
UsualWhole(r, ts) ==
    [ok |-> r.ok /\ r.i = Len(ts) + 1,
     v |-> IF IsNaN(r.v) THEN Num(0) ELSE r.v]

UsualValue(formula, value) ==
    UsualWhole(UsualSum(SignsApart(Tokens(formula)), 1, value),
               SignsApart(Tokens(formula)))

\* C11: for every formula that mathexpr_create builds, mathexpr_eval of
\* the program returns the value of the formula under the usual rules:
\* * and / before + and -, equal levels from left to right, parentheses
\* first, ^ before * and /, a leading minus negating the term after it.
C11_UsualRules ==
    Evaluated
    => /\ UsualValue(last.formula, last.value).ok
       /\ last.result = UsualValue(last.formula, last.value).v

\* the formula 2*(A+3)^2 - STEP(A) with A = 5 evaluates to 127
C11_Example ==
    /\ Evaluated
    /\ last.formula = <<"2", "*", "(", "A", "+", "3", ")", "^", "2", " ", "-",
                        " ", "S", "T", "E", "P", "(", "A", ")">>
    /\ last.value = Num(5)
    /\ last.result = Num(127)
    /\ UsualValue(last.formula, last.value).v = Num(127)

\* a formula x ^ a ^ b of an operand x and two numbers a and b
ExponentChain ==
    /\ Evaluated
    /\ Len(LexCodes(last.formula)) = 5
    /\ LexCodes(last.formula)[1] \in {7, 8}
    /\ SubSeq(LexCodes(last.formula), 2, 5) = <<31, 7, 31, 7>>

\* the value of the i-th token of the formula, a number or the variable
OperandValue(i) ==
    IF Tokens(last.formula)[i].lex = 8 THEN last.value
    ELSE Tokens(last.formula)[i].fvalue

\* C12: exponentiation is right-associative: the program built from
\* x^a^b, a and b numbers, has the value x^(a^b), not (x^a)^b.
C12_RightAssociative ==
    ExponentChain
    => last.result = Power(OperandValue(1), Power(OperandValue(3), OperandValue(5)))

\* the program of a chain x^a^b has the value (x^a)^b, which differs from
\* x^(a^b)
C12_LeftAssociativeChain ==
    /\ ExponentChain
    /\ last.result = Power(Power(OperandValue(1), OperandValue(3)), OperandValue(5))
    /\ last.result # Power(OperandValue(1), Power(OperandValue(3), OperandValue(5)))

\* the number of open parentheses after the first i tokens; -1 once a ')'
\* had no '(' to close
RECURSIVE ParenDepth(_, _)
ParenDepth(codes, i) ==
    IF i = 0 THEN 0
    ELSE IF ParenDepth(codes, i - 1) < 0 THEN -1
    ELSE IF codes[i] = 1 THEN ParenDepth(codes, i - 1) + 1
    ELSE IF codes[i] = 2 THEN ParenDepth(codes, i - 1) - 1
    ELSE ParenDepth(codes, i - 1)

Unbalanced(codes) == ParenDepth(codes, Len(codes)) # 0

CodeAt(codes, i) == IF i >= 1 /\ i <= Len(codes) THEN codes[i] ELSE 0

FunctionWithoutParen(codes) ==
    \E i \in DOMAIN codes : codes[i] \in 10..28 /\ CodeAt(codes, i + 1) # 1

BinaryCodes == {3, 4, 5, 6, 31}

\* an operator with no operand on its right or, for * / ^, on its left; a
\* sign with nothing to apply to; an empty pair of parentheses; the empty
\* formula
OperatorLacksOperand(codes) ==
    \/ codes = <<>>
    \/ \E i \in DOMAIN codes : codes[i] = 1 /\ CodeAt(codes, i + 1) = 2
    \/ \E i \in DOMAIN codes :
          /\ codes[i] \in BinaryCodes
          /\ i = Len(codes) \/ codes[i + 1] \in BinaryCodes \cup {2}
    \/ \E i \in DOMAIN codes :
          /\ codes[i] \in {5, 6, 31}
          /\ i = 1 \/ codes[i - 1] \in BinaryCodes \cup {1}

\* a '^' that is followed neither by a number nor by a number inside one
\* pair of parentheses
ExponentNotLiteral(codes) ==
    \E i \in DOMAIN codes :
        /\ codes[i] = 31
        /\ CodeAt(codes, i + 1) # 7
        /\ ~(/\ CodeAt(codes, i + 1) = 1
             /\ CodeAt(codes, i + 2) = 7
             /\ CodeAt(codes, i + 3) = 2)

SyntaxError(codes) ==
    \/ Unbalanced(codes)
    \/ FunctionWithoutParen(codes)
    \/ OperatorLacksOperand(codes)
    \/ ExponentNotLiteral(codes)

\* a token of code 0: a character of no token or an unknown name
HasUnknownToken(codes) == \E i \in DOMAIN codes : codes[i] = 0

\* C13: mathexpr_create returns no program for every formula with
\* unbalanced parentheses, with a function name not followed by '(', with
\* a binary operator that lacks an operand (the empty formula and "()"
\* included), or with a '^' not followed by a number, bare or in one pair
\* of parentheses.
C13_SyntaxErrorsRefused ==
    last.op \in {"create", "eval"} /\ SyntaxError(LexCodes(last.formula))
    => last.expr = <<>>

\* a formula with an unclosed '(' after an unknown character is built
C13_BuiltDespiteUnbalanced ==
    /\ Built
    /\ Unbalanced(LexCodes(last.formula))
    /\ HasUnknownToken(LexCodes(last.formula))

\* a number whose E is not followed by an optional sign and a digit
HasBadExponent(formula) ==
    \E i \in DOMAIN Tokens(formula) : Tokens(formula)[i].errflag = 1

\* an unknown name
HasUnknownName(formula) ==
    \E i \in DOMAIN Tokens(formula) :
        Tokens(formula)[i].lex = 0 /\ isLetter(Tokens(formula)[i].first)

\* a character of no token
HasStrayCharacter(formula) ==
    \E i \in DOMAIN Tokens(formula) :
        Tokens(formula)[i].lex = 0 /\ ~isLetter(Tokens(formula)[i].first)

\* C14: mathexpr_create returns no program for every formula that
\* contains a malformed token, wherever it stands: a character of no
\* token, a name that is neither a function nor a variable the callback
\* knows, or a number whose E is not followed by an optional sign and a
\* digit.
C14_MalformedTokenRefused ==
    /\ last.op \in {"create", "eval"}
    /\ \/ HasStrayCharacter(last.formula)
       \/ HasUnknownName(last.formula)
       \/ HasBadExponent(last.formula)
    => last.expr = <<>>

\* a malformed token where an operand is expected is refused
C14_RefusedAtOperand ==
    /\ Refused
    /\ Len(Tokens(last.formula)) = 3
    /\ LexCodes(last.formula) = <<7, 3, 0>>
    /\ sp.MathexprShared.Err = 1

\* C15: every tree node allocated during a mathexpr_create call has been
\* freed when the call returns, on the success path and on every build
\* error path; no tree node stays allocated after the build.
C15_NoTreeNodeLeft ==
    last.op = "create" => sp.MathexprShared.heap = {}

\* a build that succeeds allocates several nodes and frees them all
C15_FreedOnSuccess ==
    /\ last.op = "create"
    /\ last.expr # <<>>
    /\ sp.MathexprShared.nAlloc >= 3
    /\ sp.MathexprShared.heap = {}

\* the stack after the first k nodes of the program that was evaluated
StackAfter(k) == ExecProgram(SubSeq(last.expr, 1, k), <<Num(0)>>, last.value)

\* its top, and the element under the top
TopAfter(k) == StackAfter(k)[Len(StackAfter(k))]

UnderTopAfter(k) == StackAfter(k)[Len(StackAfter(k)) - 1]

\* the k-th node has the opcode and finds a value on the top that meets
\* the test
LogOfNonPositive(k) == last.expr[k].opcode = 17 /\ LeZero(TopAfter(k - 1))

SqrtOfNegative(k) == last.expr[k].opcode = 16 /\ LtZero(TopAfter(k - 1))

PowerOfNonPositive(k) == last.expr[k].opcode = 31 /\ LeZero(UnderTopAfter(k - 1))

\* C16: in mathexpr_eval LOG of a value <= 0 yields 0, SQRT of a value
\* < 0 yields 0, x^n with x <= 0 yields 0, and the value returned is never
\* NaN, whatever the program and the variable values.
C16_GuardsAndNoNaN ==
    Evaluated
    => /\ ~IsNaN(last.result)
       /\ \A k \in DOMAIN last.expr :
             LogOfNonPositive(k) \/ SqrtOfNegative(k) \/ PowerOfNonPositive(k)
             => TopAfter(k) = Num(0)

\* a program in which LOG, SQRT and ^ each meet such a value and the top
\* of the stack is NaN at the end
C16_Witness ==
    /\ Evaluated
    /\ \E k \in DOMAIN last.expr : LogOfNonPositive(k)
    /\ \E k \in DOMAIN last.expr : SqrtOfNegative(k)
    /\ \E k \in DOMAIN last.expr : PowerOfNonPositive(k)
    /\ IsNaN(TopAfter(Len(last.expr)))
    /\ last.result = Num(0)

Log10OfNonPositive(k) == last.expr[k].opcode = 27 /\ LeZero(TopAfter(k - 1))

\* C17: in mathexpr_eval LOG10 of any value <= 0, zero or negative,
\* leaves 0 on the top of the stack, so that STEP(LOG10(x)) with x < 0
\* evaluates to STEP(0) = 0.
C17_Log10OfNonPositive ==
    Evaluated
    => /\ \A k \in DOMAIN last.expr : Log10OfNonPositive(k) => TopAfter(k) = Num(0)
       /\ (/\ last.formula = <<"S", "T", "E", "P", "(", "L", "O", "G", "1", "0", "(",
                               "A", ")", ")">>
           /\ LtZero(last.value))
          => last.result = Num(0)

\* LOG10 of zero leaves 0; LOG10 of a negative value leaves NaN, of which
\* STEP makes 1
C17_Log10OfZero ==
    /\ Evaluated
    /\ last.formula = <<"S", "T", "E", "P", "(", "L", "O", "G", "1", "0", "(",
                        "A", ")", ")">>
    /\ last.value = Num(0)
    /\ TopAfter(2) = Num(0)
    /\ last.result = Num(0)

\* the k-th node is COT or COTH and finds on the top a value at which the
\* function's denominator, tan or sinh, is zero
CotOfZero(k) == last.expr[k].opcode = 13 /\ EqZero(libm_tan(TopAfter(k - 1)))

CothOfZero(k) == last.expr[k].opcode = 26 /\ EqZero(TopAfter(k - 1))

\* C18: in mathexpr_eval COT and COTH of an argument at which their
\* denominator is zero (tan(x) = 0 for COT; sinh(x) = 0, that is x = 0,
\* for COTH) yield 0, not an infinite value or NaN.
C18_CotAndCothOfZero ==
    Evaluated
    => \A k \in DOMAIN last.expr :
           CotOfZero(k) \/ CothOfZero(k) => TopAfter(k) = Num(0)

\* COT of zero yields 0
C18_CotOfZero ==
    /\ Evaluated
    /\ \E k \in DOMAIN last.expr : CotOfZero(k) /\ TopAfter(k) = Num(0)

\* the link of the last request and the nodes at its two ends
ClassLink == last.pre.Link[last.j]

UpNode == last.pre.Node[ClassLink.node1]

DnNode == last.pre.Node[ClassLink.node2]

\* a conduit offset, reduced by the water depth of an adjacent outfall
ReducedOffset(node, offset) ==
    IF node.type = "OUTFALL" THEN MAX(0, offset - node.newDepth) ELSE offset

Z1 == ReducedOffset(UpNode, ClassLink.offset1)

Z2 == ReducedOffset(DnNode, ClassLink.offset2)

UpstreamDry == last.y1 <= FUDGE /\ last.y2 > FUDGE

DownstreamDry == last.y2 <= FUDGE /\ last.y1 > FUDGE

\* the table for one dry end, the dry test made against the end inverts
\* node1.invert + o1 and node2.invert + o2
OneEndDryTable(o1, o2) ==
    IF UpstreamDry
    THEN (IF last.h2 < UpNode.invertElev + o1 THEN "UP_DRY"
          ELSE IF Z1 > 0 THEN "UP_CRITICAL" ELSE "SUBCRITICAL")
    ELSE (IF last.h1 < DnNode.invertElev + o2 THEN "DN_DRY"
          ELSE IF Z2 > 0 THEN "DN_CRITICAL" ELSE "SUBCRITICAL")

\* C19 (as stated): with one end dry getFlowClass follows the table with
\* z1, z2 the offsets reduced by the depth of an adjacent outfall: UP_DRY
\* exactly when h2 < node1.invert + z1, else UP_CRITICAL when z1 > 0, else
\* SUBCRITICAL; the same downstream with DN_DRY, h1, node2, z2; and DRY
\* exactly when both ends are dry.
C19_DryTestOnReducedOffsets ==
    Classified
    => /\ UpstreamDry \/ DownstreamDry
          => last.res.flowClass = OneEndDryTable(Z1, Z2)
       /\ last.res.flowClass = "DRY" <=> (last.y1 <= FUDGE /\ last.y2 <= FUDGE)

\* C19 (amended): the dry test is made against the invert of the conduit
\* end, node.invert + Link.offset, with the offset not reduced; the test
\* for a critical end uses the reduced offset.
C19_DryTestOnConduitInverts ==
    Classified
    => /\ UpstreamDry \/ DownstreamDry
          => last.res.flowClass = OneEndDryTable(ClassLink.offset1, ClassLink.offset2)
       /\ last.res.flowClass = "DRY" <=> (last.y1 <= FUDGE /\ last.y2 <= FUDGE)

\* a conduit into an outfall whose pool covers part of the offset, the
\* upstream head between the reduced and the full invert of the dry
\* downstream end: the class is DN_DRY
C19_Witness ==
    /\ Classified
    /\ DownstreamDry
    /\ DnNode.type = "OUTFALL"
    /\ Z2 > 0
    /\ last.h1 >= DnNode.invertElev + Z2
    /\ last.h1 < DnNode.invertElev + ClassLink.offset2
    /\ last.res.flowClass = "DN_DRY"

BothWet == last.y1 > FUDGE /\ last.y2 > FUDGE

\* normal and critical depth at the flow of the last request
ClassYnorm == link_getYnorm(last.pre, last.j, fabs(last.q))

ClassYcrit == link_getYcrit(last.pre, last.j, fabs(last.q))

ClassYcMin == MIN(ClassYnorm, ClassYcrit)

ClassYcMax == MAX(ClassYnorm, ClassYcrit)

\* the downstream depth lies between the smaller and the larger of normal
\* and critical depth, in forward flow with a downstream offset
BetweenDepths ==
    /\ last.q >= 0
    /\ Z2 > 0
    /\ ClassYcMin <= last.y2
    /\ last.y2 < ClassYcMax

\* C20: with both ends wet getFlowClass returns UP_CRITICAL exactly when
\* q < 0, z1 > 0 and y1 < min(yN, yC); DN_CRITICAL exactly when q >= 0,
\* z2 > 0 and y2 < min(yN, yC); SUBCRITICAL otherwise.  fasnh is always in
\* [0,1] and differs from 1 only when q >= 0, z2 > 0 and
\* min(yN,yC) <= y2 < max(yN,yC), where it is
\* (ycMax - y2)/(ycMax - ycMin), or 0 if ycMax - ycMin < FUDGE.  No
\* critical class is returned for an end whose reduced offset is 0.
C20_WetEndsTable ==
    Classified
    => /\ BothWet
          => /\ last.res.flowClass = "UP_CRITICAL"
                <=> (last.q < 0 /\ Z1 > 0 /\ last.y1 < ClassYcMin)
             /\ last.res.flowClass = "DN_CRITICAL"
                <=> (last.q >= 0 /\ Z2 > 0 /\ last.y2 < ClassYcMin)
             /\ last.res.flowClass \in {"UP_CRITICAL", "DN_CRITICAL", "SUBCRITICAL"}
             /\ BetweenDepths
                => last.res.fasnh =
                      IF ClassYcMax - ClassYcMin < FUDGE THEN 0
                      ELSE Div((ClassYcMax - last.y2) * One, ClassYcMax - ClassYcMin)
       /\ last.res.fasnh >= 0
       /\ last.res.fasnh <= One
       /\ ~(BothWet /\ BetweenDepths) => last.res.fasnh = One
       /\ Z1 = 0 => last.res.flowClass # "UP_CRITICAL"
       /\ Z2 = 0 => last.res.flowClass # "DN_CRITICAL"

\* both ends wet, forward flow onto an outfall whose pool has taken up the
\* whole offset, the downstream depth below critical and normal depth: the
\* class stays SUBCRITICAL
C20_Witness ==
    /\ Classified
    /\ BothWet
    /\ last.q >= 0
    /\ ClassLink.offset2 > 0
    /\ Z2 = 0
    /\ last.y2 < ClassYcMin
    /\ last.res.flowClass = "SUBCRITICAL"

-----------------------------------------------------------------------------
(* The surface areas findSurfArea stores *)

\* the class findSurfArea stored and the fraction its classifier returned
SurfClass == last.loc.distClass

SurfFasnh == last.loc.classCalls[1].fasnh

\* the conduit offsets of the last call, reduced at an outfall
CallZ1 == EndOffset(last.pre, PreLink.node1, PreLink.offset1)

CallZ2 == EndOffset(last.pre, PreLink.node2, PreLink.offset2)

\* top widths at the depths findSurfArea returned and at their mean
SurfWidth1 == getWidth(PreLink.xsect, last.loc.y1)

SurfWidth2 == getWidth(PreLink.xsect, last.loc.y2)

SurfWidthMid ==
    getWidth(PreLink.xsect, MAX(Div(last.loc.y1 + last.loc.y2, 2), FUDGE))

\* average surface area of the upstream and of the downstream half
UpHalfArea == Div((SurfWidth1 + SurfWidthMid) * last.loc.length, 4)

DnHalfArea == Div((SurfWidthMid + SurfWidth2) * last.loc.length, 4)

\* the areas stored for the class, all cases but the dry-end ones
SurfAreaTable ==
    /\ SurfClass = "DRY"
       => /\ PostLink.surfArea1 = Div(FUDGE * last.loc.length, 2)
          /\ PostLink.surfArea2 = Div(FUDGE * last.loc.length, 2)
    /\ SurfClass = "UP_CRITICAL" => PostLink.surfArea1 = 0
    /\ SurfClass = "DN_CRITICAL" => PostLink.surfArea2 = 0
    /\ SurfClass = "SUBCRITICAL"
       => /\ PostLink.surfArea1 = UpHalfArea
          /\ PostLink.surfArea2
               = Div((SurfWidthMid + SurfWidth2) * last.loc.length * SurfFasnh,
                     4 * One)
    /\ PostLink.surfArea1 >= 0
    /\ PostLink.surfArea2 >= 0

\* the area stored at the dry end, given the offsets o1 and o2 that decide
\* on a free fall
DryEndAreas(o1, o2) ==
    /\ SurfClass = "UP_DRY"
       => /\ PostLink.surfArea1 = (IF o1 <= 0 THEN UpHalfArea ELSE 0)
          /\ PostLink.surfArea2 = DnHalfArea
    /\ SurfClass = "DN_DRY"
       => /\ PostLink.surfArea2 = (IF o2 <= 0 THEN DnHalfArea ELSE 0)
          /\ PostLink.surfArea1 = UpHalfArea

-----------------------------------------------------------------------------
(* Flow limitation *)

\* a call that went past the early-out
FullPath == Called /\ ~last.loc.early

\* the call asks the culvert's inlet control for the flow
CulvertBranch == PreLink.xsect.culvertCode > 0 /\ ~last.loc.isFull

\* the call asks the normal-flow check for the flow
NormalBranch ==
    /\ ~CulvertBranch
    /\ last.loc.y1 < PreLink.xsect.yFull
    /\ PostLink.flowClass \in {"SUBCRITICAL", "SUPCRITICAL"}

AtOutfall ==
    \/ last.pre.Node[PreLink.node1].type = "OUTFALL"
    \/ last.pre.Node[PreLink.node2].type = "OUTFALL"

\* water surface slope < conduit slope
SlopeTrigger ==
    /\ last.pre.NormalFlowLtd \in {"SLOPE", "BOTH"} \/ AtOutfall
    /\ last.loc.y1 < last.loc.y2

\* Fr >= 1.0 at the upstream end for the candidate flow
FroudeTrigger ==
    /\ last.pre.NormalFlowLtd \in {"FROUDE", "BOTH"}
    /\ ~AtOutfall
    /\ last.loc.y1 > FUDGE
    /\ last.loc.y2 > FUDGE
    /\ link_getFroude(last.pre, last.j,
                      Div(last.loc.qCand, getArea(PreLink.xsect, last.loc.y1)),
                      last.loc.y1) >= One

\* normal flow at the upstream end
CallQNorm ==
    PreConduit.beta * getArea(PreLink.xsect, last.loc.y1)
      * Pow23(getHydRad(PreLink.xsect, last.loc.y1))

-----------------------------------------------------------------------------
(* The final gates *)

\* C23: the final gates act in the order under-relaxation, user flow cap,
\* flap gate, dry-node choke, so that after every call: if
\* link_setFlapGate reported the gate closed then Conduit.q1 = 0 and
\* Link.newFlow = 0; if node1.newDepth <= FUDGE then Conduit.q1 <= FUDGE;
\* if node2.newDepth <= FUDGE then Conduit.q1 >= -FUDGE.
C23_FinalGates ==
    Called
    => /\ FullPath
          => /\ last.loc.qRelax
                  = RelaxFlow(last.steps, last.omega, last.loc.qLast,
                              last.loc.qLim)
             /\ last.loc.qUser = UserFlowLimit(PreLink.qLimit, last.loc.qRelax)
             /\ last.loc.flapClosed
                  = link_setFlapGate(last.pre, last.j, PreLink.node1,
                                     PreLink.node2, last.loc.qUser)
             /\ (~last.loc.flapClosed
                 /\ (last.loc.qUser <= FUDGE
                     \/ last.pre.Node[PreLink.node1].newDepth > FUDGE)
                 /\ (last.loc.qUser >= -FUDGE
                     \/ last.pre.Node[PreLink.node2].newDepth > FUDGE))
                => PostConduit.q1 = last.loc.qUser
       /\ last.loc.flapClosed
          => (PostConduit.q1 = 0 /\ PostLink.newFlow = 0)
       /\ last.pre.Node[PreLink.node1].newDepth <= FUDGE
          => PostConduit.q1 <= FUDGE
       /\ last.pre.Node[PreLink.node2].newDepth <= FUDGE
          => PostConduit.q1 >= -FUDGE

\* reverse flow above FUDGE toward a dry downstream node, held at -FUDGE
C23_Witness ==
    /\ FullPath
    /\ ~last.loc.flapClosed
    /\ last.pre.Node[PreLink.node2].newDepth <= FUDGE
    /\ last.loc.qUser < -FUDGE
    /\ PostConduit.q1 = -FUDGE

-----------------------------------------------------------------------------
(* Inertial damping *)

DampingModes == {"NO_DAMPING", "PARTIAL", "FULL_DAMPING"}

\* Froude numbers on both sides of 0.5 and of 1
FroudeRange == {0, 3, 5, 6, 8, 10, 15}

\* the locals of the call read on entry, and its end geometry
CallInputs ==
    FlowInputs(last.pre, last.j, last.steps, last.omega, last.dt)

CallGeometry ==
    EndGeometry(PreLink.xsect,
                findSurfArea(last.pre, last.j, CallInputs.qLast,
                             CallInputs.length, CallInputs.entry.h1,
                             CallInputs.entry.h2, CallInputs.entry.y1,
                             CallInputs.entry.y2))

\* closed conduit flowing full at both ends
FullClosed ==
    /\ FullPath
    /\ last.loc.y1 >= PreLink.xsect.yFull
    /\ last.loc.y2 >= PreLink.xsect.yFull
    /\ ~xsect_isOpen(PreLink.xsect.type)

\* sigma of a conduit that is not full, by damping mode d and Froude No. fr
SigmaTable(d, fr) ==
    CASE d = "NO_DAMPING" -> One
      [] d = "FULL_DAMPING" -> 0
      [] OTHER -> IF 2 * fr <= One THEN One
                  ELSE IF fr >= One THEN 0
                  ELSE 2 * (One - fr)

\* the damping factors and the candidate flow of the call with inputs in
\* and geometry g, by fullness
DampingOfCall(in, g) ==
    /\ FullClosed
       => /\ last.loc.sigma = 0
          /\ last.loc.rho = One
          /\ \A d \in DampingModes, fr \in FroudeRange :
                DampingFactors([g.s1 EXCEPT !.InertDamping = d], in, g, fr)
                  = [rho |-> One, sigma |-> 0]
          /\ last.loc.qCand
               = MomentumTerms(g.s1, in, g,
                               LastVelocity(last.loc.qLast, last.loc.aMid),
                               0, g.aMid, g.rMid).q
    /\ ~last.loc.isFull
       => /\ last.loc.sigma
               = SigmaTable(last.pre.InertDamping, last.loc.froude)
          /\ \A d \in DampingModes, fr \in FroudeRange :
                DampingFactors([g.s1 EXCEPT !.InertDamping = d], in, g, fr).sigma
                  = SigmaTable(d, fr)

\* C24: in a closed conduit flowing full at both ends the inertial terms
\* are 0 and rho is 1 under every damping mode and every Froude number, so
\* the candidate flow is (qOld - dq2 - dq6)/(1 + dq1 + dq5); in a conduit
\* that is not full sigma is 1 under NO_DAMPING, 0 under FULL_DAMPING, and
\* under PARTIAL 1 for Fr <= 0.5, 0 for Fr >= 1 and 2(1 - Fr) in between.
C24_DampingByFullness == FullPath => DampingOfCall(CallInputs, CallGeometry)

\* a surcharged closed conduit under NO_DAMPING whose inertial term dq3
\* would not be 0 with sigma = 1
C24_Witness ==
    /\ FullClosed
    /\ last.pre.InertDamping = "NO_DAMPING"
    /\ last.loc.qLast # 0
    /\ last.loc.aMid # CallInputs.aOld

-----------------------------------------------------------------------------
(* Flow class across calls *)

\* inputs of a conduit update of link 1 that ends in class c
ClassSample(c) ==
    CASE c = "DRY" -> Project("open", 0, 0, -3000, -2500)
      [] c = "UP_DRY" -> Project("forcemain", 0, 6, -3000, -2500)
      [] c = "DN_DRY" -> Project("outfall", 6, 0, -3000, -2500)
      [] c = "SUBCRITICAL" -> Project("open", 0, 6, 0, 0)
      [] c = "SUPCRITICAL" -> Project("open", 0, 6, -3000, -2500)
      [] c = "UP_CRITICAL" -> Project("drop", 0, 6, -3000, -2500)
      [] OTHER -> Project("drop", 6, 0, -3000, -2500)

\* the class a conduit update of link 1 of project s leaves when the
\* previous call left class c0
ClassAfter(s, c0) ==
    dwflow_findConduitFlow([s EXCEPT !.Link[1].flowClass = c0],
                           1, 1, One, 2).sp.Link[1].flowClass

\* Froude number computed from qLast
CallFroude ==
    link_getFroude(last.pre, last.j,
                   LastVelocity(PreConduit.q1, CallGeometry.aMid),
                   CallGeometry.yMid)

\* C25: Link.flowClass after a call is determined by that call's inputs
\* and never by the flowClass the previous call left, so no class is
\* terminal: from every class every class is reachable in one call.
\* SUPCRITICAL is the class on exit exactly when the classifier returned
\* SUBCRITICAL, the early-out was not taken, and the Froude number computed
\* from qLast is > 1.
C25_ClassFromInputsAlone ==
    Called
    => /\ \A c0 \in FlowClasses :
             Again([last.pre EXCEPT !.Link[last.j].flowClass = c0])
                 .sp.Link[last.j].flowClass
               = PostLink.flowClass
       /\ \A c1 \in FlowClasses :
             ClassAfter(ClassSample(c1), PostLink.flowClass) = c1
       /\ PostLink.flowClass = "SUPCRITICAL"
          <=> /\ last.loc.classCalls[1].flowClass = "SUBCRITICAL"
              /\ ~last.loc.early
              /\ CallFroude > One
       /\ PostLink.flowClass # "SUPCRITICAL"
          => PostLink.flowClass = last.loc.classCalls[1].flowClass

\* a call that finds the class SUPCRITICAL left by the previous call and
\* leaves SUBCRITICAL, at a Froude number that is not above 1
C25_Witness ==
    /\ FullPath
    /\ PreLink.flowClass = "SUPCRITICAL"
    /\ last.loc.classCalls[1].flowClass = "SUBCRITICAL"
    /\ CallFroude <= One
    /\ PostLink.flowClass = "SUBCRITICAL"

-----------------------------------------------------------------------------
(* The postfix program and the expression tree *)

UnaryCodes == 9..28

RECURSIVE TreeSize(_)
TreeSize(t) == IF t.id = 0 THEN 0 ELSE TreeSize(t.left) + TreeSize(t.right) + 1

\* seq lists the nodes of tree t left subtree, right subtree, root
RECURSIVE IsPostOrder(_, _)
IsPostOrder(t, seq) ==
    IF t.id = 0 THEN seq = <<>>
    ELSE /\ Len(seq) = TreeSize(t)
         /\ seq[Len(seq)]
              = [opcode |-> t.opcode, ivar |-> t.ivar, fvalue |-> t.fvalue]
         /\ IsPostOrder(t.left, SubSeq(seq, 1, TreeSize(t.left)))
         /\ IsPostOrder(t.right,
                        SubSeq(seq, TreeSize(t.left) + 1, Len(seq) - 1))

\* the value of tree t, evaluated recursively
RECURSIVE TreeValue(_, _)
TreeValue(t, value) ==
    IF t.opcode \in BinaryCodes
    THEN BinaryOp(t.opcode, TreeValue(t.left, value), TreeValue(t.right, value))
    ELSE IF t.opcode = 7 THEN t.fvalue
    ELSE IF t.opcode = 8 THEN value
    ELSE IF t.opcode = 9 THEN dneg(TreeValue(t.left, value))
    ELSE MathFunction(t.opcode, TreeValue(t.left, value))

\* the k-th node of the program finds the operands it takes above the
\* base slot
OperandsFound(k) ==
    /\ last.expr[k].opcode \in BinaryCodes => Len(StackAfter(k - 1)) >= 3
    /\ last.expr[k].opcode \in UnaryCodes => Len(StackAfter(k - 1)) >= 2

\* C26: the postfix list is the left-right-root sequence of the expression
\* tree, and the stack machine run over it gives the value of the tree
\* evaluated recursively; every binary operator finds two operands and
\* every unary operator or function one operand above the base slot, and
\* the stack index is exactly 1 when the list ends.
C26_PostfixRunsAsTree ==
    /\ (last.op \in {"create", "eval"} /\ last.expr # <<>>)
       => /\ IsPostOrder(last.tree, last.expr)
          /\ \A k \in 1..Len(last.expr) :
                last.expr[k].opcode \in BinaryCodes \cup UnaryCodes \cup {7, 8}
    /\ last.op = "eval"
       => /\ \A k \in 1..Len(last.expr) : OperandsFound(k)
          /\ Len(StackAfter(Len(last.expr))) = 2
          /\ TopAfter(Len(last.expr)) = TreeValue(last.tree, last.value)
          /\ last.result
               = IF NeSelf(TreeValue(last.tree, last.value)) THEN Num(0)
                 ELSE TreeValue(last.tree, last.value)

\* a program in which a binary operator that does not commute takes the
\* result of a function as its right operand and the result of another
\* binary operator as its left operand, run to its end
C26_Witness ==
    /\ last.op = "eval"
    /\ \E k \in 4..Len(last.expr) :
          /\ last.expr[k].opcode \in {4, 6, 31}
          /\ last.expr[k - 1].opcode \in 10..28
          /\ last.expr[k - 3].opcode \in BinaryCodes
          /\ Len(StackAfter(k - 1)) = 3
    /\ Len(StackAfter(Len(last.expr))) = 2
    /\ TopAfter(Len(last.expr)) = TreeValue(last.tree, last.value)
    /\ ~NeSelf(TopAfter(Len(last.expr)))
    /\ last.result # Num(0)

-----------------------------------------------------------------------------
(* The value stack of mathexpr_eval *)

\* the number of slots of ExprStack in the model: the stack is scaled down
\* with the formulas (MAX_STACK_SIZE is 1024 in the source)
StackSlots == 8

\* stackindex after the first k nodes of the program
StackIndexAfter(k) == Len(StackAfter(k)) - 1

\* the lowest slot the k-th node reads or writes
LowestSlot(k) ==
    IF last.expr[k].opcode \in BinaryCodes
    THEN StackIndexAfter(k - 1) - 1
    ELSE IF last.expr[k].opcode \in {7, 8} THEN StackIndexAfter(k - 1) + 1
    ELSE StackIndexAfter(k - 1)

\* C27: whatever the length and the parenthesis nesting depth of the
\* formula, the stack index of mathexpr_eval stays within the slots of
\* ExprStack at every step: it never writes past the last slot and never
\* reads below slot 0.
C27_StackIndexInRange ==
    last.op = "eval"
    => \A k \in 1..Len(last.expr) :
          /\ StackIndexAfter(k) \in 0..(StackSlots - 1)
          /\ LowestSlot(k) >= 0

\* a formula nested four parentheses deep: each level leaves two operands
\* waiting on the stack, and the innermost number is pushed past the last
\* slot; no node reads below slot 0
C27_PushedPastLastSlot ==
    /\ last.op = "eval"
    /\ Cardinality({i \in DOMAIN last.formula : last.formula[i] = "("}) = 4
    /\ \E k \in 1..Len(last.expr) :
          /\ last.expr[k].opcode = 7
          /\ StackIndexAfter(k) = StackSlots + 1
    /\ \A k \in 1..Len(last.expr) : LowestSlot(k) >= 0

-----------------------------------------------------------------------------
(* Limitation flags and full state on exit *)

\* the full state of the end areas computed in the call
CallFullState ==
    link_getFullState(CallGeometry.a1, CallGeometry.a2, PreLink.xsect.aFull)

\* C28: the limitation flags describe the last call only: Link.normalFlow
\* (resp. Link.inletControl) is TRUE on exit only if the normal-flow check
\* (resp. culvert inlet control) capped the flow during that call; after a
\* call that takes the early-out both flags are FALSE and
\* Conduit.fullState matches the end areas computed in that call.
C28_FlagsOfLastCallOnly ==
    Called
    => /\ PostLink.normalFlow
          => /\ FullPath
             /\ NormalBranch
             /\ last.loc.qLim < last.loc.qCand
       /\ PostLink.inletControl
          => /\ FullPath
             /\ CulvertBranch
             /\ last.loc.qCand > 0
             /\ last.loc.qLim <= last.loc.qCand
       /\ last.loc.early
          => /\ ~PostLink.normalFlow
             /\ ~PostLink.inletControl
             /\ PostConduit.fullState = CallFullState

\* an early-out call of a conduit whose ends are both full, leaving the
\* full state the conduit had before the call
C28_StaleFullState ==
    /\ Called
    /\ last.loc.early
    /\ PostConduit.q1 = 0
    /\ CallFullState = "ALL_FULL"
    /\ PreConduit.fullState = "NOT_FULL"
    /\ PostConduit.fullState = "NOT_FULL"

=============================================================================
